---- MODULE Spec2Model ----
(***************************************************************************)
(* Model of backdoor/sim_arm_core.py: the memory proxy SimARMMemory with   *)
(* its run encoder, local shadow streams, skip table, instruction cache    *)
(* and patches, in front of a transport that behaves as a byte memory.     *)
(***************************************************************************)
EXTENDS Integers, Sequences, FiniteSets, TLC

(***************************************************************************)
(* Program constants                                                       *)
(***************************************************************************)
SanityCeiling == 83886080       \* 0x05000000, check_address
FlashBoundary == 2097152        \* 0x200000, flash_prefetch_hint
PrefetchSize  == 256            \* size=0x100 passed to fetch_local_data
MinAvail      == 8              \* avail < 8 triggers the prefetch
AvailLimit    == 256            \* limit = 0x100 of local_data_available

(***************************************************************************)
(* Bounds of the model                                                     *)
(***************************************************************************)
MaxStores == 3       \* stores handed to the run encoder in one behaviour
MaxForwarded == 1    \* the same, where the shadow and the cache are explored
LimbBits == 24       \* bits of one limb of a modelled Python integer
MaxSteps == 3        \* instructions stepped since the last reset

(***************************************************************************)
(* Input sets                                                              *)
(***************************************************************************)
\* Every byte of a value or of the device's memory is below 0x80 here, so
\* that each word read back stays below 2^31.
Word(b3, b2, b1, b0) == ((b3 * 256 + b2) * 256 + b1) * 256 + b0

FlashA == Word(0, 0, 1, 0)      \* 0x100, a flash address
RamA   == Word(2, 0, 0, 0)      \* 0x2000000, a RAM address
HighA  == SanityCeiling - 4     \* the last word below the sanity ceiling

W1 == Word(17, 34, 51, 68)      \* 0x11223344
W2 == Word(85, 102, 119, 136)   \* 0x55667788
H1 == Word(0, 0, 43, 77)        \* 0x2B4D
B1 == Word(0, 0, 0, 110)        \* 0x6E

Max(a, b) == IF a >= b THEN a ELSE b
Min(a, b) == IF a <= b THEN a ELSE b

(***************************************************************************)
(* struct.pack('<I'/'<H') and struct.unpack: little-endian byte strings    *)
(***************************************************************************)
RECURSIVE Pow256(_)
Pow256(i) == IF i = 0 THEN 1 ELSE 256 * Pow256(i - 1)

pack(data, n) == [i \in 1..n |-> (data \div Pow256(i - 1)) % 256]

RECURSIVE unpack(_)
unpack(bs) == IF bs = <<>> THEN 0 ELSE bs[1] + 256 * unpack(Tail(bs))

Repeat(b, n) == [i \in 1..n |-> b]

(***************************************************************************)
(* io.BytesIO: a byte string of length len; val holds the bytes that were  *)
(* written, every other byte below len is the zero padding of a seek past  *)
(* the end.                                                                *)
(***************************************************************************)
EmptyStream == [len |-> 0, val |-> <<>>]

StreamByte(s, a) == IF a \in DOMAIN s.val THEN s.val[a] ELSE 0

\* seek(a); read(n): at most n bytes, cut at the end of the stream
StreamRead(s, a, n) ==
    [i \in 1..Max(0, Min(n, s.len - a)) |-> StreamByte(s, a + i - 1)]

\* seek(a); write(bs)
StreamWrite(s, a, bs) ==
    IF bs = <<>> THEN s
    ELSE LET span == a..(a + Len(bs) - 1)
         IN  [len |-> Max(s.len, a + Len(bs)),
              val |-> [x \in (DOMAIN s.val) \cup span |->
                          IF x \in span THEN bs[x - a + 1] ELSE s.val[x]]]

(***************************************************************************)
(* The transport: a byte memory behind peek/poke/fill/read_block.  Each    *)
(* call is recorded as [call, address, data, count].                       *)
(***************************************************************************)
DevInit(a) == 64 + (a % 8)

DevByte(mem, a) == IF a \in DOMAIN mem THEN mem[a] ELSE DevInit(a)

DevWriteBytes(mem, a, bs) ==
    LET span == a..(a + Len(bs) - 1)
    IN  [x \in (DOMAIN mem) \cup span |->
            IF x \in span THEN bs[x - a + 1] ELSE mem[x]]

DevReadBytes(mem, a, n) == [i \in 1..n |-> DevByte(mem, a + i - 1)]

Call(c, a, d, n) == [call |-> c, address |-> a, data |-> d, count |-> n]

RECURSIVE FillBytes(_, _)
FillBytes(bs, n) == IF n = 0 THEN <<>> ELSE bs \o FillBytes(bs, n - 1)

\* the effect of one write call on the device memory
DevApply(mem, c) ==
    CASE c.call = "poke"       -> DevWriteBytes(mem, c.address, pack(c.data, 4))
      [] c.call = "poke_byte"  -> DevWriteBytes(mem, c.address, pack(c.data, 1))
      [] c.call = "fill_words" ->
             DevWriteBytes(mem, c.address, FillBytes(pack(c.data, 4), c.count))
      [] c.call = "fill_bytes" ->
             DevWriteBytes(mem, c.address, FillBytes(pack(c.data, 1), c.count))
      [] OTHER -> mem

RECURSIVE DevApplyAll(_, _)
DevApplyAll(mem, cs) ==
    IF cs = <<>> THEN mem ELSE DevApplyAll(DevApply(mem, Head(cs)), Tail(cs))

WriteCalls == {"poke", "poke_byte", "fill_words", "fill_bytes"}

(***************************************************************************)
(* RunEncoder.  None is modelled as -1: addresses, patterns and sizes are  *)
(* never negative.  write and flush return the new encoder and the tuple   *)
(* r = (count, address, pattern, size).                                    *)
(***************************************************************************)
None == -1

RunEncoder_init == [count |-> 0, key |-> <<None, None, None>>]

RunEncoder_flush(rle) ==
    [rle |-> RunEncoder_init, r |-> <<rle.count>> \o rle.key]

\* mutant: the run that a non-matching write ends is not returned
RunEncoder_write_drops(rle, address, pattern, size) ==
    IF rle.key = <<address - rle.count * size, pattern, size>>
    THEN [rle |-> [rle EXCEPT !.count = @ + 1], r |-> <<0, None, None, None>>]
    ELSE [rle |-> [count |-> 1, key |-> <<address, pattern, size>>],
          r   |-> <<0, None, None, None>>]

\* mutant: a write of another pattern extends the run
RunEncoder_write_anypattern(rle, address, pattern, size) ==
    IF rle.key[1] = address - rle.count * size /\ rle.key[3] = size
    THEN [rle |-> [rle EXCEPT !.count = @ + 1], r |-> <<0, None, None, None>>]
    ELSE [rle |-> [count |-> 1, key |-> <<address, pattern, size>>],
          r   |-> RunEncoder_flush(rle).r]

RunEncoder_write(rle, address, pattern, size) ==
    IF rle.key = <<address - rle.count * size, pattern, size>>
    THEN [rle |-> [rle EXCEPT !.count = @ + 1], r |-> <<0, None, None, None>>]
    ELSE [rle |-> [count |-> 1, key |-> <<address, pattern, size>>],
          r   |-> RunEncoder_flush(rle).r]

(***************************************************************************)
(* Log lines (a log file is configured): the human line and the            *)
(* replayable lines of log_replayable_write.                               *)
(***************************************************************************)
LogLine(k, sz, a, d, n, msg) ==
    [line |-> k, size |-> sz, address |-> a, data |-> d, count |-> n, note |-> msg]

log_replayable_write(address, data, size) ==
    CASE size = "word" -> <<LogLine("%wr", size, address, data, 1, "")>>
      [] size = "byte" -> <<LogLine("%wrb", size, address, data, 1, "")>>
      [] size = "half" -> <<LogLine("%wrb", size, address, data % 256, 1, ""),
                            LogLine("%wrb", size, address + 1, data \div 256, 1, "")>>

SizeStep(size) == CASE size = "word" -> 4 [] size = "half" -> 2 [] size = "byte" -> 1

log_store(address, data, size, message) ==
    <<LogLine("STORE", size, address, data, 1, message)>>
        \o log_replayable_write(address, data, size)

RECURSIVE log_fill_lines(_, _, _, _)
log_fill_lines(address, pattern, count, size) ==
    IF count <= 0 THEN <<>>
    ELSE log_replayable_write(address, pattern, size)
            \o log_fill_lines(address + SizeStep(size), pattern, count - 1, size)

log_fill(address, pattern, count, size) ==
    <<LogLine("FILL", size, address, pattern, count, "")>>
        \o log_fill_lines(address, pattern, count, size)

log_load(address, data, size) == <<LogLine("LOAD", size, address, data, 1, "")>>

log_prefetch(address) == <<LogLine("prefetch", "", address, 0, 0, "")>>

(***************************************************************************)
(* check_address and post_rle_store.  post_rle_store returns the transport *)
(* calls it made, the log lines it wrote and the exception it raised.      *)
(***************************************************************************)
check_address(address) ==
    IF address >= SanityCeiling THEN "IndexError" ELSE "none"

Out(cs, ls, e) == [calls |-> cs, log |-> ls, err |-> e]

\* the while loop of post_rle_store
RECURSIVE post_rle_loop(_, _, _, _)
post_rle_loop(count, address, pattern, size) ==
    IF count <= 0 THEN Out(<<>>, <<>>, "none")
    ELSE IF check_address(address) # "none"
    THEN Out(<<>>, <<>>, check_address(address))
    ELSE LET one ==
               CASE size = 4 ->
                      Out(<<Call("poke", address, pattern, 1)>>,
                          log_store(address, pattern, "word", ""), "none")
                 [] size = 2 ->
                      Out(<<Call("poke_byte", address, pattern % 256, 1),
                            Call("poke_byte", address + 1, pattern \div 256, 1)>>,
                          log_store(address, pattern, "half", ""), "none")
                 [] size = 1 ->
                      Out(<<Call("poke_byte", address, pattern, 1)>>,
                          log_store(address, pattern, "byte", ""), "none")
                 [] OTHER -> Out(<<>>, <<>>, "AssertionError")
             rest == post_rle_loop(count - 1, address + size, pattern, size)
         IN  IF one.err # "none" THEN one
             ELSE Out(one.calls \o rest.calls, one.log \o rest.log, rest.err)

\* mutant: a run of words is emitted store by store
post_rle_store_nofill(count, address, pattern, size) ==
    IF count > 1 /\ size = 1
    THEN IF check_address(address) # "none"
         THEN Out(<<>>, <<>>, check_address(address))
         ELSE Out(<<Call("fill_bytes", address, pattern, count)>>,
                  log_fill(address, pattern, count, "byte"), "none")
    ELSE post_rle_loop(count, address, pattern, size)

\* mutant: a run of halfwords is emitted as one byte fill
post_rle_store_halffill(count, address, pattern, size) ==
    IF count > 1 /\ size = 4
    THEN IF check_address(address) # "none"
         THEN Out(<<>>, <<>>, check_address(address))
         ELSE Out(<<Call("fill_words", address, pattern, count)>>,
                  log_fill(address, pattern, count, "word"), "none")
    ELSE IF count > 1 /\ size <= 2
    THEN IF check_address(address) # "none"
         THEN Out(<<>>, <<>>, check_address(address))
         ELSE Out(<<Call("fill_bytes", address, pattern, size * count)>>,
                  log_fill(address, pattern, count, "byte"), "none")
    ELSE post_rle_loop(count, address, pattern, size)

post_rle_store(count, address, pattern, size) ==
    IF count > 1 /\ size = 4
    THEN IF check_address(address) # "none"
         THEN Out(<<>>, <<>>, check_address(address))
         ELSE Out(<<Call("fill_words", address, pattern, count)>>,
                  log_fill(address, pattern, count, "word"), "none")
    ELSE IF count > 1 /\ size = 1
    THEN IF check_address(address) # "none"
         THEN Out(<<>>, <<>>, check_address(address))
         ELSE Out(<<Call("fill_bytes", address, pattern, count)>>,
                  log_fill(address, pattern, count, "byte"), "none")
    ELSE post_rle_loop(count, address, pattern, size)

(***************************************************************************)
(* SimARMMemory.  The methods are operators on a record m of the object's  *)
(* fields (local_addresses, local_data, rle, skip_stores, instructions,    *)
(* patch_notes, patch_hle, hle_handlers), the device memory mem, and the   *)
(* outcome of the running call: the transport calls made, the log lines    *)
(* written, the value returned, the exception raised and, for a store,     *)
(* the path it took ("local", "skipped" or "rle").                         *)
(***************************************************************************)
Raise(m, e) == [m EXCEPT !.err = e]

Emit(m, out) ==
    [m EXCEPT !.calls = @ \o out.calls,
              !.log   = @ \o out.log,
              !.mem   = DevApplyAll(@, out.calls),
              !.err   = out.err]

\* self.post_rle_store(*r)
post(m, r) == Emit(m, post_rle_store(r[1], r[2], r[3], r[4]))

flush(m) ==
    LET f == RunEncoder_flush(m.rle)
    IN  post([m EXCEPT !.rle = f.rle], f.r)

local_ram(m, begin, end) ==
    [m EXCEPT !.local_addresses = StreamWrite(@, begin, Repeat(255, end - begin + 1))]

\* read_block(device, address, size, max_round_trips): the n <= size bytes
\* that the round trips deliver
read_block(mem, address, size, n) == DevReadBytes(mem, address, Min(n, size))

fetch_local_data(m, address, size, n) ==
    LET block == read_block(m.mem, address, size, n)
        m1 == [m EXCEPT !.calls = Append(@, Call("read_block", address, 0, size))]
        m2 == local_ram(m1, address, address + Len(block) - 1)
    IN  [m2 EXCEPT !.local_data = StreamWrite(@, address, block),
                   !.ret = Len(block)]

\* flags.find(b'\x00') for the n bytes read at address: the index of the
\* first zero byte, -1 when there is none
RECURSIVE find_zero(_, _, _, _)
find_zero(s, address, i, n) ==
    IF i >= n THEN -1
    ELSE IF StreamByte(s, address + i) = 0 THEN i
    ELSE find_zero(s, address, i + 1, n)

\* len(flags[:flags.find(b'\x00')]): a slice that ends at -1 drops the last byte
local_data_available(m, address, limit) ==
    LET n    == Max(0, Min(limit, m.local_addresses.len - address))
        find == find_zero(m.local_addresses, address, 0, n)
    IN  IF find >= 0 THEN find ELSE Max(0, n - 1)

\* returns m with m.ret = avail
flash_prefetch_hint(m, address, n) ==
    LET avail == local_data_available(m, address, AvailLimit)
    IN  IF address < FlashBoundary /\ avail < MinAvail
        THEN LET m1 == flush(m)
             IN  IF m1.err # "none" THEN m1
                 ELSE fetch_local_data(
                          [m1 EXCEPT !.log = @ \o log_prefetch(address)],
                          address, PrefetchSize, n)
        ELSE [m EXCEPT !.ret = avail]

\* load, load_half and load_byte differ in the width and the device reads
load_sized(m, address, width, n) ==
    LET m1 == flash_prefetch_hint(m, address, n)
    IN  IF m1.err # "none" THEN m1
        ELSE IF StreamRead(m1.local_addresses, address, width) = Repeat(255, width)
        THEN LET bs == StreamRead(m1.local_data, address, width)
             IN  IF Len(bs) = width THEN [m1 EXCEPT !.ret = unpack(bs)]
                 ELSE Raise(m1, IF width = 1 THEN "TypeError" ELSE "struct.error")
        ELSE LET m2 == flush(m1)
             IN  IF m2.err # "none" THEN m2
                 ELSE LET data  == unpack(DevReadBytes(m2.mem, address, width))
                          peeks == IF width = 4
                                   THEN <<Call("peek", address, 0, 1)>>
                                   ELSE [i \in 1..width |->
                                            Call("peek_byte", address + i - 1, 0, 1)]
                          size  == CASE width = 4 -> "word" [] width = 2 -> "half"
                                     [] OTHER -> "byte"
                      IN  [m2 EXCEPT !.calls = @ \o peeks,
                                     !.log   = @ \o log_load(address, data, size),
                                     !.ret   = data,
                                     !.err   = check_address(address)]

load(m, address, n)      == load_sized(m, address, 4, n)
load_half(m, address, n) == load_sized(m, address, 2, n)
load_byte(m, address, n) == load_sized(m, address, 1, n)

\* self.local_data.write(struct.pack(fmt, data)), or bytes([data]): the
\* data must fit the width
local_write(m, address, data, width) ==
    IF width < 4 /\ data >= Pow256(width)   \* a modelled word is below 2^31
    THEN Raise([m EXCEPT !.path = "local"],
               IF width = 1 THEN "ValueError" ELSE "struct.error")
    ELSE [m EXCEPT !.local_data = StreamWrite(@, address, pack(data, width)),
                   !.path = "local"]

\* mutant: the skip set is not consulted
store_sized_noskip(m, address, data, width) ==
    IF StreamRead(m.local_addresses, address, width) = Repeat(255, width)
    THEN local_write(m, address, data, width)
    ELSE LET w == RunEncoder_write(m.rle, address, data, width)
         IN  post([m EXCEPT !.rle = w.rle, !.path = "rle"], w.r)

\* store, store_half and store_byte differ in the width only
store_sized(m, address, data, width) ==
    IF StreamRead(m.local_addresses, address, width) = Repeat(255, width)
    THEN local_write(m, address, data, width)
    ELSE IF address \in m.skip_stores
    THEN \* log_store is called without a size here: the line says 'word'
         [m EXCEPT !.log = @ \o log_store(address, data, "word", "skipped"),
                   !.path = "skipped"]
    ELSE LET w == RunEncoder_write(m.rle, address, data, width)
         IN  post([m EXCEPT !.rle = w.rle, !.path = "rle"], w.r)

store(m, address, data)      == store_sized(m, address, data, 4)
store_half(m, address, data) == store_sized(m, address, data, 2)
store_byte(m, address, data) == store_sized(m, address, data, 1)

skip(m, address) == [m EXCEPT !.skip_stores = @ \cup {address}]

(***************************************************************************)
(* Instruction cache and patches.  An instruction record is                *)
(* [address, next_address, op, hle]; the assembler and the disassembler    *)
(* are outside the program: a disassembled line carries the bytes it was   *)
(* decoded from, an assembled line the source text it came from.           *)
(***************************************************************************)
Key(address, thumb) == (address - (address % 2)) + thumb     \* thumb | (address & ~1)

InstrSize(thumb) == IF thumb = 1 THEN 2 ELSE 4

NoHle == <<>>       \* instr.hle is None

Line(a, o) == [address |-> a, next_address |-> None, op |-> o, hle |-> NoHle]

\* disassembly_lines(disassemble_string(data, address, thumb))
disassembly_lines(data, address, thumb) ==
    LET isz == InstrSize(thumb)
    IN  [i \in 1..(Len(data) \div isz) |->
            Line(address + (i - 1) * isz,
                 <<"mem", SubSeq(data, (i - 1) * isz + 1, i * isz)>>)]

\* disassembly_lines(disassemble_string(assemble_string(address, code + '\nnop')))
assembly_lines(code, address, thumb) ==
    LET src == code \o <<"nop">>
    IN  [i \in 1..Len(src) |->
            Line(address + (i - 1) * InstrSize(thumb), <<"asm", src[i]>>)]

GetOr(f, k, d) == IF k \in DOMAIN f THEN f[k] ELSE d

Put(f, k, v) == [x \in (DOMAIN f) \cup {k} |-> IF x = k THEN v ELSE f[x]]

Del(f, k) == [x \in (DOMAIN f) \ {k} |-> f[x]]

\* mutant: a decoded line replaces the entry already cached under its key
_load_assembly_replaces(m, address, lines, thumb) ==
    LET idx   == 1..(Len(lines) - 1)
        at(i) == Key(lines[i].address, thumb)
        new   == {at(i) : i \in idx}
        rec(k) == LET i == CHOOSE j \in idx : at(j) = k
                  IN  [lines[i] EXCEPT !.next_address = lines[i + 1].address,
                                       !.hle = GetOr(m.patch_hle, k, NoHle)]
    IN  [m EXCEPT !.instructions =
            [k \in (DOMAIN @) \cup new |-> IF k \in new THEN rec(k) ELSE @[k]]]

_load_assembly(m, address, lines, thumb) ==
    LET idx   == 1..(Len(lines) - 1)
        at(i) == Key(lines[i].address, thumb)
        new   == {at(i) : i \in idx} \ DOMAIN m.instructions
        rec(k) == LET i == CHOOSE j \in idx : at(j) = k
                  IN  [lines[i] EXCEPT !.next_address = lines[i + 1].address,
                                       !.hle = GetOr(m.patch_hle, k, NoHle)]
    IN  [m EXCEPT !.instructions =
            [k \in (DOMAIN @) \cup new |-> IF k \in DOMAIN @ THEN @[k] ELSE rec(k)]]

_load_instruction(m, address, thumb, n) ==
    LET m1 == flush(m)
    IN  IF m1.err # "none" THEN m1
        ELSE LET m2 == flash_prefetch_hint(m1, address, n)
             IN  IF m2.err # "none" THEN m2
                 ELSE IF m2.ret < MinAvail THEN Raise(m2, "AssertionError")
                 ELSE _load_assembly(m2, address,
                          disassembly_lines(
                              StreamRead(m2.local_data, address, m2.ret),
                              address, thumb),
                          thumb)

fetch(m, address, thumb, n) ==
    LET k == Key(address, thumb)
    IN  IF k \in DOMAIN m.instructions THEN [m EXCEPT !.ret = m.instructions[k]]
        ELSE IF check_address(address) # "none" THEN Raise(m, check_address(address))
        ELSE LET m1 == _load_instruction(m, address, thumb, n)
             IN  IF m1.err # "none" THEN m1
                 ELSE IF k \in DOMAIN m1.instructions
                 THEN [m1 EXCEPT !.ret = m1.instructions[k]]
                 ELSE Raise(m1, "KeyError")

\* code is a sequence of source lines (<<>> when absent), hle a handler
\* body ("" when absent)
\* mutant: an HLE-only patch leaves the cached instruction in place
patch_keeps_cached(m, address, code, hle, thumb) ==
    LET lines    == assembly_lines(code, address, thumb)
        hle_addr == IF code # <<>>
                    THEN Key(lines[Len(lines) - 1].address, thumb)
                    ELSE Key(address, thumb)
        name     == <<"hle", address>>
        m1 == IF code # <<>>
              THEN [m EXCEPT !.patch_notes =
                        @ \cup {lines[i].address : i \in 1..(Len(lines) - 1)}]
              ELSE m
        m2 == IF hle # ""
              THEN [m1 EXCEPT !.hle_handlers = Put(@, name, hle),
                              !.patch_hle = Put(@, hle_addr, name)]
              ELSE m1
    IN  IF code # <<>> /\ address % 2 # 0 THEN Raise(m, "AssertionError")
        ELSE IF code # <<>> THEN _load_assembly(m2, address, lines, thumb)
        ELSE m2

patch(m, address, code, hle, thumb) ==
    LET lines    == assembly_lines(code, address, thumb)
        hle_addr == IF code # <<>>
                    THEN Key(lines[Len(lines) - 1].address, thumb)
                    ELSE Key(address, thumb)
        name     == <<"hle", address>>
        m1 == IF code # <<>>
              THEN [m EXCEPT !.patch_notes =
                        @ \cup {lines[i].address : i \in 1..(Len(lines) - 1)}]
              ELSE m
        m2 == IF hle # ""
              THEN [m1 EXCEPT !.hle_handlers = Put(@, name, hle),
                              !.patch_hle = Put(@, hle_addr, name)]
              ELSE m1
    IN  IF code # <<>> /\ address % 2 # 0 THEN Raise(m, "AssertionError")
        ELSE IF code # <<>> THEN _load_assembly(m2, address, lines, thumb)
        ELSE [m2 EXCEPT !.instructions = Del(@, hle_addr)]

\* compile_library(device, code_address, hle_handlers)
hle_init(m) == [m EXCEPT !.hle_symbols = DOMAIN m.hle_handlers]

\* device.blx runs the handler on the device and returns its r0
hle_invoke(m, instruction, r0, result) ==
    IF instruction.hle \notin m.hle_symbols THEN Raise(m, "KeyError")
    ELSE [m EXCEPT !.calls = Append(@, Call("blx", instruction.address, r0, 1)),
                   !.log   = Append(@, LogLine("HLE", "", instruction.address, r0, 0, "")),
                   !.ret   = result]

\* the file named filebase + ext
File(filebase, ext) == <<filebase, ext>>

\* the two files filebase.addr and filebase.data, each the whole of a stream
save_state(m, filebase) ==
    [m EXCEPT !.files = Put(Put(@, File(filebase, ".addr"), m.local_addresses),
                            File(filebase, ".data"), m.local_data)]

\* io.BytesIO() followed by write(f.read())
BytesIO(bytes) == [len |-> bytes.len, val |-> bytes.val]

load_state_data(m, filebase) ==
    IF File(filebase, ".data") \notin DOMAIN m.files
    THEN Raise(m, "FileNotFoundError")
    ELSE [m EXCEPT !.local_data = BytesIO(m.files[File(filebase, ".data")])]

load_state(m, filebase) ==
    IF File(filebase, ".addr") \notin DOMAIN m.files
    THEN Raise(m, "FileNotFoundError")
    ELSE load_state_data(
            [m EXCEPT !.local_addresses = BytesIO(m.files[File(filebase, ".addr")])],
            filebase)

(***************************************************************************)
(* Python integers.  The simulator computes with unbounded integers and    *)
(* masks them when it writes a register.  An integer is held in two's      *)
(* complement as a sequence of IntBits bits, least significant first, wide *)
(* enough that no value the modelled operations compute (at most a 64-bit  *)
(* value plus a 32-bit one) reaches the sign bit by overflow.  Sums are    *)
(* taken limb by limb, three limbs of LimbBits bits.                       *)
(***************************************************************************)
IntBits == 3 * LimbBits

Bits == 0..(IntBits - 1)

BitAt(x, i) == x[i + 1]

\* the bits as a sequence
Pack(f) == SubSeq(f, 1, IntBits)

\* the integer n, for -2^30 <= n < 2^31
PyInt(n) ==
    Pack([k \in 1..IntBits |->
        IF k <= 31 THEN (n \div (2 ^ (k - 1))) % 2 ELSE IF n < 0 THEN 1 ELSE 0])

\* the 32-bit literal 0xhhhhllll
PyWord(h, l) ==
    Pack([k \in 1..IntBits |->
        IF k <= 16 THEN (l \div (2 ^ (k - 1))) % 2
        ELSE IF k <= 32 THEN (h \div (2 ^ (k - 17))) % 2 ELSE 0])

IsNeg(x) == BitAt(x, IntBits - 1) = 1

\* x as a number, for 0 <= x < 2^31
Fits(x) == \A i \in 31..(IntBits - 1) : BitAt(x, i) = 0

\* the number made of the bits of limb j
Limb(x, j) ==
    LET v[i \in 0..LimbBits] ==
            IF i = LimbBits THEN 0 ELSE x[j * LimbBits + i + 1] + 2 * v[i + 1]
    IN  v[0]

Value(x) == Limb(x, 0) + (2 ^ LimbBits) * (Limb(x, 1) % (2 ^ (31 - LimbBits)))

And(a, b) == Pack([k \in 1..IntBits |-> a[k] * b[k]])                      \* a & b
Or(a, b)  == Pack([k \in 1..IntBits |-> IF a[k] + b[k] > 0 THEN 1 ELSE 0])   \* a | b
Xor(a, b) == Pack([k \in 1..IntBits |-> (a[k] + b[k]) % 2])                \* a ^ b
Inv(a)    == Pack([k \in 1..IntBits |-> 1 - a[k]])                         \* ~a

Shl(a, n) == Pack([k \in 1..IntBits |-> IF k > n THEN a[k - n] ELSE 0])    \* a << n
Shr(a, n) ==                                                               \* a >> n
    Pack([k \in 1..IntBits |-> IF k + n <= IntBits THEN a[k + n] ELSE a[IntBits]])

AddC(a, b, cin) ==
    LET s0 == Limb(a, 0) + Limb(b, 0) + cin
        s1 == Limb(a, 1) + Limb(b, 1) + (s0 \div (2 ^ LimbBits))
        s2 == Limb(a, 2) + Limb(b, 2) + (s1 \div (2 ^ LimbBits))
        s  == <<s0, s1, s2>>
    IN  Pack([k \in 1..IntBits |->
                (s[((k - 1) \div LimbBits) + 1] \div (2 ^ ((k - 1) % LimbBits))) % 2])

Add(a, b) == AddC(a, b, 0)          \* a + b
Sub(a, b) == AddC(a, Inv(b), 1)     \* a - b
Ge(a, b)  == ~IsNeg(Sub(a, b))      \* a >= b
Gt(a, b)  == IsNeg(Sub(b, a))       \* a > b

Zero       == PyInt(0)
One        == PyInt(1)
Mask32     == PyWord(65535, 65535)          \* 0xffffffff
MaskEven   == PyWord(65535, 65534)          \* 0xfffffffe
SignBit    == PyWord(32768, 0)              \* 0x80000000
HighOnes   == Shl(Mask32, 32)               \* 0xffffffff00000000
Bit31(x)   == BitAt(x, 31)                  \* (x >> 31) & 1
B(p)       == IF p THEN 1 ELSE 0            \* a Python bool as a number

(***************************************************************************)
(* The shift functions.  Each returns <<result, carry>>; a shift count of  *)
(* zero (modulo 32) returns the operand and carry 0.                       *)
(***************************************************************************)
ShiftCount(b) == Value(And(b, PyInt(31)))       \* b &= 31

lsl(a, b) ==
    LET n == ShiftCount(b)
    IN  IF n # 0 THEN <<Shl(a, n), BitAt(Shr(Shl(a, n), 32), 0)>> ELSE <<a, 0>>

lsr(a, b) ==
    LET n == ShiftCount(b)
    IN  IF n # 0 THEN <<Shr(a, n), BitAt(Shr(a, n - 1), 0)>> ELSE <<a, 0>>

asr(a, b) ==
    LET n  == ShiftCount(b)
        a1 == IF And(a, SignBit) # Zero THEN Or(a, HighOnes) ELSE a
    IN  IF n # 0 THEN <<Shr(a1, n), BitAt(Shr(a1, n - 1), 0)>> ELSE <<a, 0>>

ror(a, b) ==
    LET n == ShiftCount(b)
    IN  IF n # 0
        THEN <<Or(Shr(a, n), And(Shl(a, 32 - n), Mask32)), BitAt(Shr(a, n - 1), 0)>>
        ELSE <<a, 0>>

rol(a, b) ==
    LET n == ShiftCount(b)
    IN  IF n # 0
        THEN <<Or(Shr(a, 32 - n), And(Shl(a, n), Mask32)), BitAt(Shr(a, 31 - n), 0)>>
        ELSE <<a, 0>>

\* a = (a & 0xffffffff) | ((carry & 1) << 32); a = (a >> b) | (a << (33 - b))
rrx_rotated(a1, n) == Or(Shr(a1, n), Shl(a1, 33 - n))

rrx_result(a2) == <<And(a2, Mask32), BitAt(Shr(a2, 32), 0)>>

rrx(a, b, carry) ==
    rrx_result(rrx_rotated(Or(And(a, Mask32), Shl(PyInt(carry % 2), 32)), ShiftCount(b)))

(***************************************************************************)
(* SimARM.  The object's fields are a record arm [regs, thumb, cpsrV,      *)
(* cpsrC, cpsrZ, cpsrN, step_count, _branch]; flags and thumb are held as  *)
(* 0 or 1.  An instruction's text is held parsed: op is the mnemonic       *)
(* without its condition suffix, cond the suffix, and the operands are     *)
(* register numbers, <<"#", n>> literals and shifter operands              *)
(* [a, kind, b].                                                           *)
(***************************************************************************)
RegNums == 0..15
SP == 13
LR == 14
PC == 15

NoBranch == <<>>        \* self._branch is None

\* reset that leaves the flags as they were
reset_keeps_flags(arm, vector) ==
    [regs       |-> [r \in RegNums |->
                        IF r = PC THEN And(vector, MaskEven)
                        ELSE IF r = LR THEN Mask32 ELSE Zero],
     thumb      |-> BitAt(vector, 0),
     cpsrV      |-> IF "cpsrV" \in DOMAIN arm THEN arm.cpsrV ELSE 0,
     cpsrC      |-> IF "cpsrC" \in DOMAIN arm THEN arm.cpsrC ELSE 0,
     cpsrZ      |-> IF "cpsrZ" \in DOMAIN arm THEN arm.cpsrZ ELSE 0,
     cpsrN      |-> IF "cpsrN" \in DOMAIN arm THEN arm.cpsrN ELSE 0,
     step_count |-> 0,
     _branch    |-> arm._branch]

reset(arm, vector) ==
    [regs       |-> [r \in RegNums |->
                        IF r = PC THEN And(vector, MaskEven)
                        ELSE IF r = LR THEN Mask32 ELSE Zero],
     thumb      |-> BitAt(vector, 0),
     cpsrV      |-> 0,
     cpsrC      |-> 0,
     cpsrZ      |-> 0,
     cpsrN      |-> 0,
     step_count |-> 0,
     _branch    |-> arm._branch]

\* the state property: the named fields and a copy of the registers
state(arm) ==
    [thumb |-> arm.thumb, cpsrV |-> arm.cpsrV, cpsrC |-> arm.cpsrC, cpsrZ |-> arm.cpsrZ,
     cpsrN |-> arm.cpsrN, step_count |-> arm.step_count, regs |-> arm.regs]

\* the state property's setter: the named fields and the registers
set_state(arm, value) ==
    [arm EXCEPT !.thumb = value.thumb, !.cpsrV = value.cpsrV, !.cpsrC = value.cpsrC,
                !.cpsrZ = value.cpsrZ, !.cpsrN = value.cpsrN,
                !.step_count = value.step_count, !.regs = value.regs]

Reg(n) == <<"r", n>>
Lit(x) == <<"#", x>>

\* _reg_or_literal(s)()
_reg_or_literal(arm, s) ==
    IF s[1] = "#" THEN And(s[2], Mask32) ELSE arm.regs[s[2]]

\* a shifter operand: a alone (kind ""), a rotated by a literal count
\* (kind "#"), or a shifted by the register or literal b
Operand(a) == [a |-> a, b |-> Lit(Zero), kind |-> ""]
Shifted(a, kind, b) == [a |-> a, b |-> b, kind |-> kind]

_shifter(arm, s) ==
    LET a == _reg_or_literal(arm, s.a)
    IN  CASE s.kind = ""    -> <<a, 0>>
          [] s.kind = "#"   -> ror(a, And(s.b[2], Mask32))
          [] s.kind = "lsl" -> lsl(a, _reg_or_literal(arm, s.b))
          [] s.kind = "lsr" -> lsr(a, _reg_or_literal(arm, s.b))
          [] s.kind = "asr" -> asr(a, _reg_or_literal(arm, s.b))
          [] s.kind = "rol" -> rol(a, _reg_or_literal(arm, s.b))
          [] s.kind = "ror" -> ror(a, _reg_or_literal(arm, s.b))

\* _dstpc(dst)(r)
_dstpc(arm, dst, r) ==
    IF dst = PC
    THEN [arm EXCEPT !._branch = And(r, MaskEven), !.thumb = BitAt(r, 0)]
    ELSE [arm EXCEPT !.regs[dst] = And(r, Mask32)]

(***************************************************************************)
(* An executing step is a record c: the SimARM fields arm, the memory      *)
(* proxy m, the exception that ended it (err) and, as history, the events  *)
(* of the step in the order they happened.                                 *)
(***************************************************************************)
Fail(c, e) == [c EXCEPT !.err = e]

Event(c, e, a) == [c EXCEPT !.events = Append(@, <<e, a>>)]

\* self.memory.store(addr, data); BytesIO.seek refuses a negative address.
\* The device model holds addresses and words below 2^31.
\* the step after a call on the memory proxy that left it as m1
Called(c, m1) == [c EXCEPT !.m = m1, !.err = m1.err]

\* self.memory.store, store_half or store_byte(addr, data)
cpu_store_sized(c, addr, data, width) ==
    IF IsNeg(addr) THEN Fail(c, "ValueError")
    ELSE IF ~Fits(addr) \/ ~Fits(data) THEN Fail(c, "unmodelled")
    ELSE Called(c, store_sized(c.m, Value(addr), Value(data), width))

\* _reladdr: [rn], [rn, b] and [rn, -b], a = regs[rn] and sh = sF()
_reladdr(i, a, sh) ==
    CASE i.mode = ""  -> a
      [] i.mode = "+" -> And(Add(a, sh[1]), Mask32)
      [] i.mode = "-" -> And(Sub(a, sh[1]), Mask32)

cpu_store(c, addr, data) ==
    IF IsNeg(addr) THEN Fail(c, "ValueError")
    ELSE IF ~Fits(addr) \/ ~Fits(data) THEN Fail(c, "unmodelled")
    ELSE Called(c, store(c.m, Value(addr), Value(data)))

\* self.memory.load(addr), the value in c.m.ret
cpu_load(c, addr, n) ==
    IF IsNeg(addr) THEN Fail(c, "ValueError")
    ELSE IF ~Fits(addr) THEN Fail(c, "unmodelled")
    ELSE Called(c, load(c.m, Value(addr), n))

\* the flags of adds, adcs and cmn
add_flags(arm, a, b, r) ==
    [arm EXCEPT !.cpsrN = Bit31(r),
                !.cpsrZ = B(And(r, Mask32) = Zero),
                !.cpsrC = B(Gt(r, Mask32)),
                !.cpsrV = B(/\ Bit31(a) = Bit31(b)
                            /\ Bit31(a) # Bit31(r)
                            /\ Bit31(b) # Bit31(r))]

\* the flags of subs, sbcs, rsbs, cmp and negs
sub_flags(arm, a, b, r) ==
    [arm EXCEPT !.cpsrN = Bit31(r),
                !.cpsrZ = B(And(r, Mask32) = Zero),
                !.cpsrC = B(Ge(And(a, Mask32), And(b, Mask32))),
                !.cpsrV = B(/\ Bit31(a) # Bit31(b)
                            /\ Bit31(a) # Bit31(r))]

\* cpsrZ = r == 0; cpsrN = (r >> 31) & 1
logic_flags(arm, r) ==
    [arm EXCEPT !.cpsrZ = B(r = Zero), !.cpsrN = Bit31(r)]

\* mutant: the full-descending store takes the increment-after addresses
_generate_ldstm_fd_ia(memop, mode) ==
    LET impl == IF mode \in {"", "fd", "ea"} THEN "ia"
                ELSE IF mode \in {"fa", "ed"} THEN "da" ELSE mode
    IN  [pre  |-> IF impl = "ib" THEN 4 ELSE IF impl = "db" THEN -4 ELSE 0,
         post |-> IF impl = "ia" THEN 4 ELSE IF impl = "da" THEN -4 ELSE 0]

_generate_ldstm(memop, mode) ==
    LET impl == CASE memop = "st" /\ mode = "fd" -> "db"
                  [] memop = "st" /\ mode = "fa" -> "ib"
                  [] memop = "st" /\ mode = "ed" -> "da"
                  [] memop = "st" /\ mode = "ea" -> "ia"
                  [] memop = "ld" /\ mode = "fd" -> "ia"
                  [] memop = "ld" /\ mode = "fa" -> "da"
                  [] memop = "ld" /\ mode = "ed" -> "ib"
                  [] memop = "ld" /\ mode = "ea" -> "db"
                  [] OTHER -> IF mode = "" THEN "ia" ELSE mode
    IN  [pre  |-> IF impl = "ib" THEN 4 ELSE IF impl = "db" THEN -4 ELSE 0,
         post |-> IF impl = "ia" THEN 4 ELSE IF impl = "da" THEN -4 ELSE 0]

\* for rn in src_rn: addr += pre; store(addr, regs[rn]); addr += post
RECURSIVE stm_fn(_, _, _, _, _)
stm_next(c1, a1, src_rn, k, pp) ==
    IF c1.err # "none" THEN c1
    ELSE stm_fn(c1, Add(a1, PyInt(pp.post)), src_rn, k + 1, pp)

stm_at(c, a1, src_rn, k, pp) ==
    stm_next(cpu_store(c, a1, c.arm.regs[src_rn[k]]), a1, src_rn, k, pp)

stm_fn(c, addr, src_rn, k, pp) ==
    IF k > Len(src_rn) THEN [c EXCEPT !.addr = addr]
    ELSE stm_at(c, Add(addr, PyInt(pp.pre)), src_rn, k, pp)

\* for dF in dst_funcs: addr += pre; dF(load(addr)); addr += post
RECURSIVE ldm_fn(_, _, _, _, _, _)
ldm_next(c1, a1, dst, k, pp, n) ==
    IF c1.err # "none" THEN c1
    ELSE ldm_fn([c1 EXCEPT !.arm = _dstpc(@, dst[k], PyInt(c1.m.ret))],
                Add(a1, PyInt(pp.post)), dst, k + 1, pp, n)

ldm_at(c, a1, dst, k, pp, n) == ldm_next(cpu_load(c, a1, n), a1, dst, k, pp, n)

ldm_fn(c, addr, dst, k, pp, n) ==
    IF k > Len(dst) THEN [c EXCEPT !.addr = addr]
    ELSE ldm_at(c, Add(addr, PyInt(pp.pre)), dst, k, pp, n)

\* self.regs[13] = sp; the stores
push_at(c, sp, i) ==
    stm_fn([c EXCEPT !.arm.regs[SP] = sp], sp, i.regs, 1, [pre |-> 0, post |-> 4])

op_push(c, i) == push_at(c, Sub(c.arm.regs[SP], PyInt(4 * Len(i.regs))), i)

\* after the loads: self.regs[13] = sp + 4 * len(reglist)
pop_done(c1, sp, i) ==
    IF c1.err # "none" THEN c1
    ELSE [c1 EXCEPT !.arm.regs[SP] = Add(sp, PyInt(4 * Len(i.regs)))]

op_pop(c, i, n) ==
    pop_done(ldm_fn(c, c.arm.regs[SP], i.regs, 1, [pre |-> 0, post |-> 4], n),
             c.arm.regs[SP], i)

\* if writeback: self.regs[left] = addr
ldstm_writeback(c1, i) ==
    IF c1.err # "none" \/ ~i.writeback THEN c1
    ELSE [c1 EXCEPT !.arm.regs[i.src0] = c1.addr]

op_stm(c, i) ==
    ldstm_writeback(stm_fn(c, c.arm.regs[i.src0], i.regs, 1, _generate_ldstm("st", i.mode)), i)

op_ldm(c, i, n) ==
    ldstm_writeback(ldm_fn(c, c.arm.regs[i.src0], i.regs, 1, _generate_ldstm("ld", i.mode), n), i)

\* the mnemonics SimARM defines an op_ method for (those modelled)
BranchOps  == {"b", "bl", "bx", "blx", "nop"}
MoveOps    == {"mov", "movs", "mvn", "mvns", "neg", "negs", "clz"}
LogicOps   == {"bic", "bics", "orr", "orrs", "and", "ands", "eor", "eors"}
ArithOps   == {"add", "adds", "adc", "adcs", "sub", "subs", "sbc", "sbcs", "rsb", "rsbs"}
CompareOps == {"tst", "teq", "cmp", "cmn"}
MemoryOps  == {"push", "pop", "stm", "ldm", "str", "strh", "strb"}
ShiftOps   == {"lsls", "lsrs", "asrs", "rors", "rols", "rrxs"}
KnownOps   == BranchOps \cup MoveOps \cup LogicOps \cup ArithOps \cup CompareOps \cup MemoryOps
                \cup ShiftOps

\* op_clz: i = 0; while i < 32: if r & (1 << i): break; else: i += 1
RECURSIVE clz_scan(_, _)
clz_scan(r, i) ==
    IF i < 32 /\ And(r, Shl(One, i)) = Zero THEN clz_scan(r, i + 1) ELSE i

\* the flag-setting operations, r being the result they computed
add_s(arm, dst, a, b, r) == _dstpc(add_flags(arm, a, b, r), dst, r)

sub_s(arm, dst, a, b, r) == _dstpc(sub_flags(arm, a, b, r), dst, r)

logic_s(arm, dst, r) == _dstpc(logic_flags(arm, r), dst, r)

\* op_lsls and the like: r, self.cpsrC = the pair rc a shift function
\* returned; self.cpsrZ = not (r & 0xffffffff); self.cpsrN = (r >> 31) & 1; fD(r)
shift_s(arm, dst, rc) ==
    _dstpc([arm EXCEPT !.cpsrC = rc[2],
                       !.cpsrZ = B(And(rc[1], Mask32) = Zero),
                       !.cpsrN = Bit31(rc[1])], dst, rc[1])

\* self.regs[14] = i.next_address | self.thumb
set_lr(arm, instr) ==
    [arm EXCEPT !.regs[LR] = Or(PyInt(instr.next_address), PyInt(arm.thumb))]

\* op_bl after regs[14] is set: self._branch = t()
bl_branch(arm1, i) ==
    [arm1 EXCEPT !._branch = IF i.target[1] = "r" THEN arm1.regs[i.target[2]]
                             ELSE And(i.target[2], Mask32)]

\* op_blx of a register after regs[14] is set: r = self.regs[rn]
blx_branch(arm1, i) ==
    [arm1 EXCEPT !._branch = And(arm1.regs[i.target[2]], MaskEven),
                 !.thumb = BitAt(arm1.regs[i.target[2]], 0)]

\* the operation the op_ method of i.op returns, run on c; instr is the
\* cache line of the instruction, a the value of its first source register
\* and sh the <<result, carry>> of its shifter operand
base_op(c, instr, i, n, a, sh) ==
    LET arm   == c.arm
        s     == sh[1]
        To(x) == [c EXCEPT !.arm = x]
    IN  CASE i.op = "nop" -> c
          [] i.op = "b"   -> To([arm EXCEPT !._branch = i.target[2]])
          [] i.op = "bl"  ->
                To(bl_branch(set_lr(arm, instr), i))
          [] i.op = "bx"  ->
                IF i.target[1] = "r"
                THEN To([arm EXCEPT !._branch = And(arm.regs[i.target[2]], PyInt(-2)),
                                    !.thumb = BitAt(arm.regs[i.target[2]], 0)])
                ELSE To([arm EXCEPT !._branch = And(i.target[2], PyInt(-2)),
                                    !.thumb = 1 - arm.thumb])
          [] i.op = "blx" ->
                IF i.target[1] = "r"
                THEN To(blx_branch(set_lr(arm, instr), i))
                ELSE To([set_lr(arm, instr) EXCEPT
                            !._branch = And(i.target[2], MaskEven),
                            !.thumb = 1 - arm.thumb])
          [] i.op = "push" -> op_push(c, i)
          [] i.op = "pop"  -> op_pop(c, i, n)
          [] i.op = "stm"  -> op_stm(c, i)
          [] i.op = "str"  -> cpu_store_sized(c, _reladdr(i, a, sh), arm.regs[i.dst], 4)
          [] i.op = "strh" ->
                cpu_store_sized(c, _reladdr(i, a, sh), And(PyInt(65535), arm.regs[i.dst]), 2)
          [] i.op = "strb" ->
                cpu_store_sized(c, _reladdr(i, a, sh), And(PyInt(255), arm.regs[i.dst]), 1)
          [] i.op = "ldm"  -> op_ldm(c, i, n)
          [] i.op = "mov"  -> To(_dstpc(arm, i.dst, s))
          [] i.op = "movs" -> To(logic_s([arm EXCEPT !.cpsrC = sh[2]], i.dst, s))
          [] i.op = "mvn"  -> To(_dstpc(arm, i.dst, Xor(s, Mask32)))
          [] i.op = "mvns" ->       \* the carry goes to an attribute named csprC
                To(logic_s(arm, i.dst, Xor(s, Mask32)))
          [] i.op = "bic"  -> To(_dstpc(arm, i.dst, And(a, Inv(s))))
          [] i.op = "bics" ->       \* s, _ = sF()
                To(logic_s(arm, i.dst, And(a, Inv(s))))
          [] i.op = "orr"  -> To(_dstpc(arm, i.dst, Or(a, s)))
          [] i.op = "orrs" -> To(logic_s([arm EXCEPT !.cpsrC = sh[2]], i.dst, Or(a, s)))
          [] i.op = "and"  -> To(_dstpc(arm, i.dst, And(a, s)))
          [] i.op = "ands" -> To(logic_s([arm EXCEPT !.cpsrC = sh[2]], i.dst, And(a, s)))
          [] i.op = "eor"  -> To(_dstpc(arm, i.dst, Xor(a, s)))
          [] i.op = "eors" -> To(logic_s([arm EXCEPT !.cpsrC = sh[2]], i.dst, Xor(a, s)))
          [] i.op = "tst"  -> To(logic_flags([arm EXCEPT !.cpsrC = sh[2]], And(a, s)))
          [] i.op = "teq"  -> To(logic_flags([arm EXCEPT !.cpsrC = sh[2]], Xor(a, s)))
          [] i.op = "add"  -> To(_dstpc(arm, i.dst, Add(a, s)))
          [] i.op = "adds" -> To(add_s(arm, i.dst, a, s, Add(a, s)))
          [] i.op = "adc"  -> To(_dstpc(arm, i.dst, AddC(a, s, arm.cpsrC)))
          [] i.op = "adcs" -> To(add_s(arm, i.dst, a, s, AddC(a, s, arm.cpsrC)))
          [] i.op = "cmn"  -> To(add_flags(arm, a, s, Add(a, s)))
          [] i.op = "sub"  -> To(_dstpc(arm, i.dst, Sub(a, s)))
          [] i.op = "subs" -> To(sub_s(arm, i.dst, a, s, Sub(a, s)))
          [] i.op = "sbc"  -> To(_dstpc(arm, i.dst, Add(Sub(a, s), PyInt(arm.cpsrC - 1))))
          [] i.op = "sbcs" ->
                To(sub_s(arm, i.dst, a, s, Add(Sub(a, s), PyInt(arm.cpsrC - 1))))
          [] i.op = "rsb"  -> To(_dstpc(arm, i.dst, Sub(s, a)))
          [] i.op = "rsbs" -> To(sub_s(arm, i.dst, s, a, Sub(s, a)))
          [] i.op = "cmp"  -> To(sub_flags(arm, a, s, Sub(a, s)))
          [] i.op = "neg"  -> To(_dstpc(arm, i.dst, Sub(Zero, s)))
          [] i.op = "negs" -> To(sub_s(arm, i.dst, Zero, s, Sub(Zero, s)))
          [] i.op = "clz"  -> To(_dstpc(arm, i.dst, PyInt(clz_scan(s, 0))))
          [] i.op = "lsls" -> To(shift_s(arm, i.dst, lsl(a, _reg_or_literal(arm, i.sh.a))))
          [] i.op = "lsrs" -> To(shift_s(arm, i.dst, lsr(a, _reg_or_literal(arm, i.sh.a))))
          [] i.op = "asrs" -> To(shift_s(arm, i.dst, asr(a, _reg_or_literal(arm, i.sh.a))))
          [] i.op = "rors" -> To(shift_s(arm, i.dst, ror(a, _reg_or_literal(arm, i.sh.a))))
          [] i.op = "rols" -> To(shift_s(arm, i.dst, rol(a, _reg_or_literal(arm, i.sh.a))))
          [] i.op = "rrxs" ->
                To(shift_s(arm, i.dst, rrx(a, _reg_or_literal(arm, i.sh.a), arm.cpsrC)))

\* the suffixes _generate_condition_codes defines, and its test for each
Suffixes == {"eq", "ne", "cs", "hs", "cc", "lo", "mi", "pl", "vs", "vc",
             "hi", "ls", "ge", "lt", "gt", "le", "al"}

Not(f) == f = 0         \* not self.cpsrX

\* the table with hi testing the carry alone
_generate_condition_codes_hi_carry(arm, name) ==
    CASE name = "eq" -> arm.cpsrZ = 1
      [] name = "ne" -> Not(arm.cpsrZ)
      [] name \in {"cs", "hs", "hi"} -> arm.cpsrC = 1
      [] name \in {"cc", "lo"} -> Not(arm.cpsrC)
      [] name = "mi" -> arm.cpsrN = 1
      [] name = "pl" -> Not(arm.cpsrN)
      [] name = "vs" -> arm.cpsrV = 1
      [] name = "vc" -> Not(arm.cpsrV)
      [] name = "ls" -> arm.cpsrZ = 1 \/ Not(arm.cpsrC)
      [] name = "ge" -> Not(arm.cpsrN) = Not(arm.cpsrV)
      [] name = "lt" -> Not(arm.cpsrN) # Not(arm.cpsrV)
      [] name = "gt" -> Not(arm.cpsrN) = Not(arm.cpsrV) /\ Not(arm.cpsrZ)
      [] name = "le" -> Not(arm.cpsrN) # Not(arm.cpsrV) \/ arm.cpsrZ = 1
      [] name = "al" -> TRUE

_generate_condition_codes(arm, name) ==
    CASE name = "eq" -> arm.cpsrZ = 1
      [] name = "ne" -> Not(arm.cpsrZ)
      [] name = "cs" -> arm.cpsrC = 1
      [] name = "hs" -> arm.cpsrC = 1
      [] name = "cc" -> Not(arm.cpsrC)
      [] name = "lo" -> Not(arm.cpsrC)
      [] name = "mi" -> arm.cpsrN = 1
      [] name = "pl" -> Not(arm.cpsrN)
      [] name = "vs" -> arm.cpsrV = 1
      [] name = "vc" -> Not(arm.cpsrV)
      [] name = "hi" -> arm.cpsrC = 1 /\ Not(arm.cpsrZ)
      [] name = "ls" -> arm.cpsrZ = 1 \/ Not(arm.cpsrC)
      [] name = "ge" -> Not(arm.cpsrN) = Not(arm.cpsrV)
      [] name = "lt" -> Not(arm.cpsrN) # Not(arm.cpsrV)
      [] name = "gt" -> Not(arm.cpsrN) = Not(arm.cpsrV) /\ Not(arm.cpsrZ)
      [] name = "le" -> Not(arm.cpsrN) # Not(arm.cpsrV) \/ arm.cpsrZ = 1
      [] name = "al" -> TRUE

\* sim_arm.py, SimARM._generate_condition_codes: the test the legacy
\* simulator makes before it runs fn(i)
sim_arm_generate_condition_codes(arm, name) ==
    CASE name = "eq" -> arm.cpsrZ = 1
      [] name = "ne" -> Not(arm.cpsrZ)
      [] name = "cs" -> arm.cpsrC = 1
      [] name = "hs" -> arm.cpsrC = 1
      [] name = "cc" -> Not(arm.cpsrC)
      [] name = "lo" -> Not(arm.cpsrC)
      [] name = "mi" -> arm.cpsrN = 1
      [] name = "pl" -> Not(arm.cpsrN)
      [] name = "vs" -> arm.cpsrV = 1
      [] name = "vc" -> Not(arm.cpsrV)
      [] name = "hi" -> arm.cpsrC = 1 /\ Not(arm.cpsrZ)
      [] name = "ls" -> arm.cpsrZ = 1 /\ Not(arm.cpsrC)
      [] name = "ge" -> (~Not(arm.cpsrN)) = (~Not(arm.cpsrV))
      [] name = "lt" -> (~Not(arm.cpsrN)) # (~Not(arm.cpsrV))
      [] name = "gt" -> (~Not(arm.cpsrN)) = (~Not(arm.cpsrV)) /\ Not(arm.cpsrZ)
      [] name = "le" -> (~Not(arm.cpsrN)) # (~Not(arm.cpsrV)) \/ arm.cpsrZ = 1
      [] name = "al" -> TRUE

\* opfunc(): the base operation, or its conditional variant
opfunc(c, instr, i, n) ==
    IF i.cond = "" \/ _generate_condition_codes(c.arm, i.cond)
    THEN base_op(c, instr, i, n, c.arm.regs[i.src0], _shifter(c.arm, i.sh))
    ELSE c

\* json.dump and json.load of the state dictionary: the document is the
\* list of its members, the registers a list of numbers
StateFields == <<"thumb", "cpsrV", "cpsrC", "cpsrZ", "cpsrN", "step_count">>

json_dump(d) ==
    [k \in 1..(Len(StateFields) + 1) |->
        IF k <= Len(StateFields) THEN <<StateFields[k], d[StateFields[k]]>>
        ELSE <<"regs", [j \in 1..Cardinality(DOMAIN d.regs) |-> d.regs[j - 1]]>>]

Member(doc, name) == doc[CHOOSE k \in DOMAIN doc : doc[k][1] = name][2]

json_load(doc) ==
    [thumb |-> Member(doc, "thumb"), cpsrV |-> Member(doc, "cpsrV"),
     cpsrC |-> Member(doc, "cpsrC"), cpsrZ |-> Member(doc, "cpsrZ"),
     cpsrN |-> Member(doc, "cpsrN"), step_count |-> Member(doc, "step_count"),
     regs |-> [r \in RegNums |-> Member(doc, "regs")[r + 1]]]

\* SimARM.save_state: the memory's files, then filebase.core
arm_save_state(c, filebase) ==
    [c EXCEPT !.m = [save_state(c.m, filebase) EXCEPT
                        !.files = Put(@, File(filebase, ".core"), json_dump(state(c.arm)))]]

\* self.state = json.load(f), the memory having loaded its own files
arm_load_core(c1, filebase) ==
    IF c1.err # "none" THEN c1
    ELSE IF File(filebase, ".core") \notin DOMAIN c1.m.files
    THEN Fail(c1, "FileNotFoundError")
    ELSE [c1 EXCEPT !.arm = set_state(@, json_load(c1.m.files[File(filebase, ".core")]))]

arm_load_state(c, filebase) ==
    arm_load_core(Called(c, load_state(c.m, filebase)), filebase)

NoBreak == <<>>         \* breakpoint = None

\* self.memory.hooks.get(regs[15], None)
hooks_get(hooks, pc) ==
    IF Fits(pc) /\ Value(pc) \in DOMAIN hooks THEN hooks[Value(pc)] ELSE "none"

\* SimARMMemory.hook(address, fn): fn is a function that returns ("ok"), one
\* that raises ("raise"), one that calls arm.reset(HookVector) ("reset"), one
\* that calls arm.copy_registers_from(HookNs) ("copy") or one that calls
\* arm.step() ("step")
hook(hooks, address, fn) == Put(hooks, address - (address % 2), fn)

\* step's local name regs: Attached while it names the list that self.regs
\* names, and the list it was bound to once self.regs names another
Attached == <<>>

step_regs(c) == IF c.regs = Attached THEN c.arm.regs ELSE c.regs

\* regs[r] = v
step_set(c, r, v) ==
    IF c.regs = Attached THEN [c EXCEPT !.arm.regs[r] = v] ELSE [c EXCEPT !.regs[r] = v]

\* self.regs = a new list, as reset and copy_registers_from do: regs keeps
\* naming the old one
step_rebound(c, arm1) ==
    [c EXCEPT !.arm = arm1, !.regs = IF c.regs = Attached THEN c.arm.regs ELSE c.regs]

\* the vector and the namespace of the modelled hooks
HookVector == FlashA + 8

HookNs == (PC :> PyInt(HookVector)) @@ (0 :> PyInt(9))

\* self.regs = [ns.get(n, 0) for n in self.reg_names]
copy_registers_from(arm, ns) ==
    [arm EXCEPT !.regs = [r \in RegNums |-> GetOr(ns, r, Zero)]]

\* regs[15] = self._branch or instr.next_address
next_pc(c1, instr) ==
    IF c1.arm._branch # NoBranch /\ c1.arm._branch # Zero
    THEN c1.arm._branch
    ELSE PyInt(instr.next_address)

\* mutant: the breakpoint is never tested
step_break_ignored(c1, pc, instr, breakpoint) == step_set(c1, PC, pc)

\* regs[15] = pc; if regs[15] == breakpoint: return
step_break(c1, pc, instr, breakpoint) ==
    IF pc = breakpoint
    THEN Event(step_set(c1, PC, pc), "return", instr.address)
    ELSE step_set(c1, PC, pc)

\* after opfunc(), which left the step as c1
step_ran(c1, instr, breakpoint) ==
    IF c1.err # "none" THEN c1
    ELSE step_break(c1, next_pc(c1, instr), instr, breakpoint)

\* the try block of one iteration
step_try(c, instr, i, breakpoint, n) ==
    IF i.op \notin KnownOps THEN Fail(c, "AttributeError")
    ELSE step_ran(Event(opfunc(c, instr, i, n), "opfunc", instr.address), instr, breakpoint)

\* regs[0] = self.memory.hle_invoke(instr, regs[0]), the call having left
\* the memory proxy as m1
step_hle_done(c, m1, instr, result) ==
    IF m1.err # "none" THEN Event(Called(c, m1), "hle", instr.address)
    ELSE step_set(Event(Called(c, m1), "hle", instr.address), 0, PyInt(result))

\* if instr.hle: ...
step_hle(c, instr, result) ==
    IF instr.hle = NoHle THEN c
    ELSE IF ~Fits(step_regs(c)[0]) THEN Fail(c, "unmodelled")
    ELSE step_hle_done(c, hle_invoke(c.m, instr, Value(step_regs(c)[0]), result), instr, result)

\* if hook: hook(self); the hook that re-enters step is completed by
\* step_reentered
step_hook(c1, instr, hk) ==
    IF c1.err # "none" \/ hk = "none" THEN c1
    ELSE IF hk = "raise" THEN Fail(Event(c1, "hook", instr.address), "HookError")
    ELSE IF hk = "reset"
    THEN step_rebound(Event(c1, "hook", instr.address), reset(c1.arm, PyInt(HookVector)))
    ELSE IF hk = "copy"
    THEN step_rebound(Event(c1, "hook", instr.address), copy_registers_from(c1.arm, HookNs))
    ELSE Event(c1, "hook", instr.address)

\* what follows the try block: the HLE handler, then the hook
step_after(c, instr, hk, result) == step_hook(step_hle(c, instr, result), instr, hk)

\* repeat -= 1; self.step_count += 1
step_begin(c) ==
    Event([c EXCEPT !.arm.step_count = @ + 1], "iter", Value(step_regs(c)[PC]))

\* self._branch = None; regs[15] = (instr.next_address + 3) & ~3, or += 8
step_fetch(c1, m1, instr) ==
    Event(step_set([c1 EXCEPT !.m = m1, !.arm._branch = NoBranch], PC,
                   IF c1.arm.thumb = 1
                   THEN And(PyInt(instr.next_address + 3), PyInt(-4))
                   ELSE Add(step_regs(c1)[PC], PyInt(8))),
          "fetch", instr.address)

RECURSIVE step(_, _, _, _, _, _)
\* the end of one iteration, the HLE handler and the hook having left c4
step_next(c4, hooks, repeat, breakpoint, result, n) ==
    IF c4.err # "none" THEN c4
    ELSE step(c4, hooks, repeat - 1, breakpoint, result, n)

\* the inner step of a hook has returned as c5: the outer regs names the
\* list it named before, which is the one the inner step began on
step_returned(c4, c5) ==
    [c5 EXCEPT !.regs = IF c4.regs = Attached THEN c5.regs ELSE c4.regs]

\* a hook that calls arm.step()
step_reentered(c4, hk, hooks, result, n) ==
    IF c4.err # "none" \/ hk # "step" THEN c4
    ELSE step_returned(c4, step([c4 EXCEPT !.regs = Attached], hooks, 1, NoBreak, result, n))

\* the rest of one iteration, the try block having left c3
step_tried(c3, instr, hk, hooks, repeat, breakpoint, result, n) ==
    IF c3.err # "none"
    THEN step_set(c3, PC, PyInt(instr.address))
    ELSE IF c3.events[Len(c3.events)][1] = "return" THEN c3
    ELSE step_next(step_reentered(step_after(c3, instr, hk, result), hk, hooks, result, n),
                   hooks, repeat, breakpoint, result, n)

\* one iteration from the fetch, which left the memory proxy as m1; hk is
\* the hook found at pc
step_fetched(c1, m1, hk, hooks, repeat, breakpoint, result, n) ==
    IF m1.err # "none" THEN Called(c1, m1)
    ELSE IF m1.ret.op[1] # "asm" THEN Fail([c1 EXCEPT !.m = m1], "unmodelled")
    ELSE step_tried(step_try(step_fetch(c1, m1, m1.ret), m1.ret, m1.ret.op[2], breakpoint, n),
                    m1.ret, hk, hooks, repeat, breakpoint, result, n)

step(c, hooks, repeat, breakpoint, result, n) ==
    IF repeat <= 0 THEN c
    ELSE IF ~Fits(step_regs(c)[PC]) THEN Fail(step_begin(c), "unmodelled")
    ELSE step_fetched(step_begin(c),
                      fetch(c.m, Value(step_regs(c)[PC]), c.arm.thumb, n),
                      hooks_get(hooks, step_regs(c)[PC]),
                      hooks, repeat, breakpoint, result, n)

(***************************************************************************)
(* State                                                                   *)
(***************************************************************************)
VARIABLES
    local_addresses,    \* presence stream: 0xff where the shadow is authoritative
    local_data,         \* shadow data stream
    rle,                \* the RunEncoder
    skip_stores,        \* addresses whose stores are only logged
    instructions,       \* instruction cache, by Key(address, thumb)
    patch_notes,        \* addresses marked 'PATCH'
    patch_hle,          \* Key |-> handler name
    hle_handlers,       \* handler name |-> body
    hle_symbols,        \* the handlers hle_init has compiled
    files,              \* what save_state wrote
    mem,                \* the device's memory, where it differs from DevInit
    devWrites,          \* history: the write calls the transport has received
    stored,             \* history: the stores handed to the run encoder
    ram,                \* history: the ranges given to local_ram
    last,               \* the last call made on the object and its outcome
    hooks,              \* SimARMMemory.hooks: address |-> the hook's behaviour
    arm,                \* the SimARM object's fields
    cpu,                \* history: the last call made on the SimARM and its outcome
    saved               \* history: filebase |-> the simulator as save_state found it

vars == <<local_addresses, local_data, rle, skip_stores, instructions,
          patch_notes, patch_hle, hle_handlers, hle_symbols, files, mem,
          devWrites, stored, ram, last, hooks, arm, cpu, saved>>

NoCall == [op |-> "init", address |-> None, data |-> None, thumb |-> None,
           ret |-> None, err |-> "none", calls |-> <<>>, log |-> <<>>,
           path |-> "", shadowed |-> {}]

\* SimARM.__init__: reset(0); _branch is not yet an attribute
ArmInit == reset([_branch |-> NoBranch], Zero)

NoStep == [op |-> "init", before |-> ArmInit, events |-> <<>>, err |-> "none",
           repeat |-> 0, breakpoint |-> NoBreak, value |-> Zero]

Init ==
    /\ local_addresses = EmptyStream
    /\ local_data = EmptyStream
    /\ rle = RunEncoder_init
    /\ skip_stores = {}
    /\ instructions = <<>>
    /\ patch_notes = {}
    /\ patch_hle = <<>>
    /\ hle_handlers = <<>>
    /\ hle_symbols = {}
    /\ files = <<>>
    /\ mem = <<>>
    /\ devWrites = <<>>
    /\ stored = <<>>
    /\ ram = {}
    /\ last = NoCall
    /\ hooks = <<>>
    /\ arm = ArmInit
    /\ cpu = NoStep
    /\ saved = <<>>

\* the object as a call finds it
Cur ==
    [local_addresses |-> local_addresses, local_data |-> local_data, rle |-> rle,
     skip_stores |-> skip_stores, instructions |-> instructions,
     patch_notes |-> patch_notes, patch_hle |-> patch_hle,
     hle_handlers |-> hle_handlers, hle_symbols |-> hle_symbols,
     files |-> files, mem |-> mem,
     calls |-> <<>>, log |-> <<>>, ret |-> None, err |-> "none", path |-> ""]

IsWrite(c) == c.call \in WriteCalls

Present(a) == StreamByte(local_addresses, a) = 255

\* the call op(address, data, thumb) has run and left the memory proxy as m
MemDone(m, op, address, data, thumb, width) ==
    /\ local_addresses' = m.local_addresses
    /\ local_data' = m.local_data
    /\ rle' = m.rle
    /\ skip_stores' = m.skip_stores
    /\ instructions' = m.instructions
    /\ patch_notes' = m.patch_notes
    /\ patch_hle' = m.patch_hle
    /\ hle_handlers' = m.hle_handlers
    /\ hle_symbols' = m.hle_symbols
    /\ files' = m.files
    /\ mem' = m.mem
    /\ devWrites' = devWrites \o SelectSeq(m.calls, IsWrite)
    /\ stored' = IF m.path = "rle"
                 THEN Append(stored,
                        [address |-> address, data |-> data, width |-> width,
                         shadowed |-> {x \in address..(address + width - 1) : Present(x)},
                         skipped |-> address \in skip_stores,
                         pending_before |-> rle.count,
                         sent_after |-> Len(devWrites) + Len(SelectSeq(m.calls, IsWrite))])
                 ELSE stored
    /\ ram' = IF op = "local_ram" THEN ram \cup {<<address, data>>} ELSE ram
    /\ UNCHANGED saved
    /\ last' = [op |-> op, address |-> address, data |-> data, thumb |-> thumb,
                ret |-> IF m.err = "none" THEN m.ret ELSE None,
                err |-> m.err, calls |-> m.calls, log |-> m.log, path |-> m.path,
                shadowed |-> {x \in address..(address + width - 1) : Present(x)}]

\* a call on the memory proxy alone
Done(m, op, address, data, thumb, width) ==
    /\ MemDone(m, op, address, data, thumb, width)
    /\ UNCHANGED <<hooks, arm, cpu>>

(***************************************************************************)
(* Actions: one per public method of SimARMMemory                          *)
(***************************************************************************)
Store(a, v) ==
    /\ Len(stored) < MaxStores
    /\ Done(store(Cur, a, v), "store", a, v, None, 4)

StoreHalf(a, v) ==
    /\ Len(stored) < MaxStores
    /\ Done(store_half(Cur, a, v), "store_half", a, v, None, 2)

StoreByte(a, v) ==
    /\ Len(stored) < MaxStores
    /\ Done(store_byte(Cur, a, v), "store_byte", a, v, None, 1)

Load(a, n) == Done(load(Cur, a, n), "load", a, None, None, 4)

LoadHalf(a, n) == Done(load_half(Cur, a, n), "load_half", a, None, None, 2)

LoadByte(a, n) == Done(load_byte(Cur, a, n), "load_byte", a, None, None, 1)

Flush == Done(flush(Cur), "flush", None, None, None, 0)

Skip(a) == Done(skip(Cur, a), "skip", a, None, None, 0)

LocalRam(r) == Done(local_ram(Cur, r[1], r[2]), "local_ram", r[1], r[2], None, 0)

Fetch(a, t, n) == Done(fetch(Cur, a, t, n), "fetch", a, None, t, 0)

Patch(a, c, h, t) == Done(patch(Cur, a, c, h, t), "patch", a, <<c, h>>, t, 0)

HleInit == Done(hle_init(Cur), "hle_init", None, None, None, 0)

HleInvoke(k, res) ==
    /\ k \in DOMAIN instructions
    /\ instructions[k].hle # NoHle
    /\ Done(hle_invoke(Cur, instructions[k], 0, res), "hle_invoke",
            instructions[k].address, 0, None, 0)

SaveState(filebase) ==
    Done(save_state(Cur, filebase), "save_state", None, None, None, 0)

(***************************************************************************)
(* Actions: the calls made on the SimARM, and SimARMMemory.hook            *)
(***************************************************************************)
memvars == <<local_addresses, local_data, rle, skip_stores, instructions,
             patch_notes, patch_hle, hle_handlers, hle_symbols, files, mem,
             devWrites, stored, ram, last, saved>>

CpuCur == [arm |-> arm, m |-> Cur, err |-> "none", events |-> <<>>, addr |-> Zero,
           regs |-> Attached]

CpuCall(op, err, events, repeat, breakpoint, value) ==
    [op |-> op, before |-> arm, events |-> events, err |-> err,
     repeat |-> repeat, breakpoint |-> breakpoint, value |-> value]

Hook(a, fn) ==
    /\ hooks' = hook(hooks, a, fn)
    /\ UNCHANGED <<memvars, arm, cpu>>

CpuReset(v) ==
    /\ arm' = reset(arm, v)
    /\ cpu' = CpuCall("reset", "none", <<>>, 0, NoBreak, v)
    /\ UNCHANGED <<memvars, hooks>>

\* arm.state = value
SetState(value) ==
    /\ arm' = set_state(arm, value)
    /\ cpu' = CpuCall("set_state", "none", <<>>, 0, NoBreak, Zero)
    /\ UNCHANGED <<memvars, hooks>>

\* arm.save_state(filebase)
CpuSaved(c, filebase) ==
    /\ files' = c.m.files
    /\ saved' = Put(saved, filebase, [state |-> state(arm), m |-> Cur])
    /\ cpu' = CpuCall("save_state", c.err, <<>>, 0, NoBreak, Zero) @@ [filebase |-> filebase]
    /\ UNCHANGED <<local_addresses, local_data, rle, skip_stores, instructions,
                   patch_notes, patch_hle, hle_handlers, hle_symbols, mem,
                   devWrites, stored, ram, last, hooks, arm>>

CpuSaveState(filebase) == CpuSaved(arm_save_state(CpuCur, filebase), filebase)

\* arm.load_state(filebase)
CpuLoaded(c, filebase) ==
    /\ local_addresses' = c.m.local_addresses
    /\ local_data' = c.m.local_data
    /\ arm' = c.arm
    /\ cpu' = CpuCall("load_state", c.err, <<>>, 0, NoBreak, Zero) @@ [filebase |-> filebase]
    /\ UNCHANGED <<rle, skip_stores, instructions, patch_notes, patch_hle,
                   hle_handlers, hle_symbols, files, mem, devWrites, stored, ram,
                   last, hooks, saved>>

CpuLoadState(filebase) == CpuLoaded(arm_load_state(CpuCur, filebase), filebase)

\* arm.step(repeat, breakpoint); result is what the device returns from a
\* handler, n the bytes a block read delivers
CpuStepped(c, repeat, breakpoint) ==
    /\ c.err # "unmodelled"
    /\ MemDone([c.m EXCEPT !.err = c.err, !.path = ""], "step", None, None, None, 0)
    /\ arm' = c.arm
    /\ cpu' = CpuCall("step", c.err, c.events, repeat, breakpoint, Zero)
    /\ UNCHANGED hooks

CpuStep(repeat, breakpoint, result, n) ==
    /\ arm.step_count < MaxSteps
    /\ Len(devWrites) < MaxStores
    /\ Fits(arm.regs[PC])
    /\ Key(Value(arm.regs[PC]), arm.thumb) \in DOMAIN instructions
    /\ CpuStepped(step(CpuCur, hooks, repeat, breakpoint, result, n), repeat, breakpoint)

(***************************************************************************)
(* Spec: the store path.  Stores of the three widths to device addresses,  *)
(* with skip, flush and a device load between them.                        *)
(***************************************************************************)
WordAddrs == {RamA, RamA + 4}
HalfAddrs == {RamA, RamA + 2}
ByteAddrs == {RamA, RamA + 1}
Words     == {W1, W2}
Halves    == {H1}
Bytes     == {B1}
SkipAddrs == {RamA + 4}
BlockLens == {MinAvail, MinAvail + 4}

Next ==
    \/ \E a \in WordAddrs, v \in Words : Store(a, v)
    \/ \E a \in HalfAddrs, v \in Halves : StoreHalf(a, v)
    \/ \E a \in ByteAddrs, v \in Bytes : StoreByte(a, v)
    \/ \E a \in SkipAddrs : Skip(a)
    \/ Load(RamA, MinAvail)
    \/ Flush

Spec == Init /\ [][Next]_vars

(***************************************************************************)
(* SpecFill: word stores on both sides of the sanity ceiling.              *)
(***************************************************************************)
FillAddrs == {RamA, RamA + 4, RamA + 8, HighA, SanityCeiling, SanityCeiling + 4}

NextFill ==
    \/ \E a \in FillAddrs, v \in Words : Store(a, v)
    \/ Flush

SpecFill == Init /\ [][NextFill]_vars

(***************************************************************************)
(* SpecShadow: the local shadow.  local_ram over flash, RAM and an address *)
(* above the ceiling; stores and loads of those addresses.                 *)
(***************************************************************************)
RamRanges   == {<<FlashA, FlashA + 3>>, <<RamA, RamA + 1>>,
                <<SanityCeiling, SanityCeiling + 3>>}
ShadowAddrs == {FlashA, RamA, SanityCeiling}

NextShadow ==
    \/ \E r \in RamRanges : LocalRam(r)
    \/ \E a \in ShadowAddrs, v \in Words : Len(stored) < MaxForwarded /\ Store(a, v)
    \/ Len(stored) < MaxForwarded /\ StoreByte(RamA, B1)
    \/ \E a \in ShadowAddrs, n \in BlockLens : Load(a, n)
    \/ LoadHalf(SanityCeiling, MinAvail)
    \/ LoadByte(RamA, MinAvail)
    \/ Skip(RamA)
    \/ Flush

SpecShadow == Init /\ [][NextShadow]_vars

(***************************************************************************)
(* SpecICache: fetches and patches of flash code, with a store pending.    *)
(***************************************************************************)
Codes      == {<<>>, <<"mov", "bx">>}
HleBodies  == {"", "r0 = 1"}
HleResults == {0, 1}

NextICache ==
    \/ \E t \in {0, 1}, n \in BlockLens : Fetch(FlashA, t, n)
    \/ \E c \in Codes, h \in HleBodies, t \in {0, 1} : Patch(FlashA, c, h, t)
    \/ HleInit
    \/ \E k \in DOMAIN instructions, res \in HleResults : HleInvoke(k, res)
    \/ Len(stored) < MaxForwarded /\ Store(RamA, W1)

SpecICache == Init /\ [][NextICache]_vars

(***************************************************************************)
(* Reading the histories                                                   *)
(***************************************************************************)
StoreOps == {"store", "store_half", "store_byte"}
LoadOps  == {"load", "load_half", "load_byte"}

Elem(w, a, d) == [width |-> w, address |-> a, data |-> d]

\* a transport write, element by element
ExpandCall(c) ==
    CASE c.call = "poke"       -> <<Elem(4, c.address, c.data)>>
      [] c.call = "poke_byte"  -> <<Elem(1, c.address, c.data)>>
      [] c.call = "fill_words" ->
             [i \in 1..c.count |-> Elem(4, c.address + 4 * (i - 1), c.data)]
      [] c.call = "fill_bytes" ->
             [i \in 1..c.count |-> Elem(1, c.address + (i - 1), c.data)]
      [] OTHER -> <<>>

RECURSIVE ExpandCalls(_)
ExpandCalls(cs) ==
    IF cs = <<>> THEN <<>> ELSE ExpandCall(Head(cs)) \o ExpandCalls(Tail(cs))

\* a store, element by element: a half-word is its two bytes, low byte first
ExpandStore(s) ==
    IF s.width = 2
    THEN <<Elem(1, s.address, s.data % 256), Elem(1, s.address + 1, s.data \div 256)>>
    ELSE <<Elem(s.width, s.address, s.data)>>

RECURSIVE ExpandStores(_)
ExpandStores(ss) ==
    IF ss = <<>> THEN <<>> ELSE ExpandStore(Head(ss)) \o ExpandStores(Tail(ss))

IsPrefix(p, q) == Len(p) <= Len(q) /\ p = SubSeq(q, 1, Len(p))

\* the bytes a transport write covers
Covered(c) ==
    CASE c.call = "poke"       -> c.address..(c.address + 3)
      [] c.call = "poke_byte"  -> {c.address}
      [] c.call = "fill_words" -> c.address..(c.address + 4 * c.count - 1)
      [] c.call = "fill_bytes" -> c.address..(c.address + c.count - 1)
      [] OTHER -> {}

\* the addresses a transport write is addressed to, element by element
Addressed(c) == {ExpandCall(c)[i].address : i \in 1..Len(ExpandCall(c))}

(***************************************************************************)
(* C2.  Stores to addresses below the sanity ceiling that are neither      *)
(* locally present nor skipped reach the transport in program order: what  *)
(* the transport has received, expanded element by element, is at every    *)
(* moment a prefix of the stores made, and all of them once a flush has    *)
(* run.                                                                    *)
(***************************************************************************)
AllBelowCeiling == \A i \in 1..Len(stored) : stored[i].address < SanityCeiling

C2_ProgramOrder ==
    AllBelowCeiling =>
        /\ IsPrefix(ExpandCalls(devWrites), ExpandStores(stored))
        /\ last.op = "flush" => ExpandCalls(devWrites) = ExpandStores(stored)

\* a half-word store, two coalesced word stores and the flush that ends them
C2_Witness ==
    /\ last.op = "flush"
    /\ Len(stored) = 3
    /\ stored[1].width = 2
    /\ Len(devWrites) = 3
    /\ devWrites[3].call = "fill_words"
    /\ ExpandCalls(devWrites) = ExpandStores(stored)

WordRun(i, n) ==
    /\ n >= 2
    /\ i + n - 1 = Len(stored)
    /\ \A j \in i..(i + n - 1) :
          /\ stored[j].width = 4
          /\ stored[j].data = stored[i].data
          /\ stored[j].address = stored[i].address + 4 * (j - i)
    /\ \A j \in (i + 1)..(i + n - 1) : stored[j].pending_before > 0

CallsSince(i) == SubSeq(devWrites, stored[i].sent_after + 1, Len(devWrites))

\* the store i continues the run that is pending when it is made
Continues(i) ==
    /\ i > 1
    /\ stored[i].pending_before > 0
    /\ stored[i - 1].width = stored[i].width
    /\ stored[i - 1].data = stored[i].data
    /\ stored[i - 1].address = stored[i].address - stored[i].width

C6_OneFillPerRun ==
    \A i \in 1..Len(stored) :
        LET n == Len(stored) - i + 1
        IN  (last.op = "flush" /\ WordRun(i, n)) =>
                CallsSince(i) =
                    <<Call("fill_words", stored[i].address, stored[i].data, n)>>

(***************************************************************************)
(* C6 amended.  The same, for a run that begins below the sanity ceiling   *)
(* and whose first store does not continue a run already pending in the    *)
(* encoder.                                                                *)
(***************************************************************************)
C6_OneFillPerFreshRun ==
    \A i \in 1..Len(stored) :
        LET n == Len(stored) - i + 1
        IN  (/\ last.op = "flush"
             /\ WordRun(i, n)
             /\ stored[i].address < SanityCeiling
             /\ ~Continues(i)) =>
                /\ last.err = "none"
                /\ CallsSince(i) =
                      <<Call("fill_words", stored[i].address, stored[i].data, n)>>

\* the three stores of the fill-coalescing scenario and their flush
C6_Witness ==
    /\ last.op = "flush"
    /\ Len(stored) = 3
    /\ WordRun(1, 3)
    /\ stored[1].address = RamA
    /\ devWrites = <<Call("fill_words", RamA, W1, 3)>>

(***************************************************************************)
(* C7 as stated.  No write the transport receives covers an address at or  *)
(* above the sanity ceiling.                                               *)
(***************************************************************************)
C7_NoWriteAboveCeiling ==
    \A i \in 1..Len(devWrites) :
        \A x \in Covered(devWrites[i]) : x < SanityCeiling

(***************************************************************************)
(* C1 as stated, for the HLE invocation: when hle_invoke has called the    *)
(* handler on the device, the run encoder holds no pending run.            *)
(***************************************************************************)
C1_EncoderEmptyAtBoundary ==
    (last.op = "hle_invoke" /\ last.err = "none") => rle.count = 0

(***************************************************************************)
(* C4 as stated.  After local_ram(a, b), a store to a word inside [a, b]   *)
(* followed by a load of it makes no transport call, and the load returns  *)
(* the value stored.                                                       *)
(***************************************************************************)
InLocalRam(x) == \E r \in ram : r[1] <= x /\ x + 3 <= r[2]

C4_ShadowCapture ==
    [][(/\ last.op = "store"
        /\ InLocalRam(last.address)
        /\ last'.op = "load"
        /\ last'.address = last.address) =>
            /\ last.calls = <<>>
            /\ last'.calls = <<>>
            /\ last'.err = "none"
            /\ last'.ret = last.data]_vars

(***************************************************************************)
(* C5 as stated, for the addresses outside the skip set: a store to a      *)
(* word-aligned address below the sanity ceiling followed at once by a     *)
(* load of it returns the value stored.  (A store to a skipped address is  *)
(* dropped by design and the load that follows reads the device.)          *)
(***************************************************************************)
C5_StoreLoadRoundTrip ==
    [][(/\ last.op = "store"
        /\ last.address % 4 = 0
        /\ last.address < SanityCeiling
        /\ last.address \notin skip_stores
        /\ last'.op = "load"
        /\ last'.address = last.address) =>
            /\ last'.err = "none"
            /\ last'.ret = last.data]_vars

(***************************************************************************)
(* C8 as stated, first half.  Once a byte is present, no store made later  *)
(* whose range includes it causes a transport write that covers it: the    *)
(* writes received after such a store returned leave its present bytes     *)
(* alone.                                                                  *)
(***************************************************************************)
C8_PresentStaysLocal ==
    \A i \in 1..Len(stored) :
        \A k \in (stored[i].sent_after + 1)..Len(devWrites) :
            Covered(devWrites[k]) \cap stored[i].shadowed = {}

(***************************************************************************)
(* C9 as stated, weakened to any failure: a load, load_half or load_byte   *)
(* of an address at or above the sanity ceiling does not return a value.   *)
(***************************************************************************)
C9_HighLoadFails ==
    (last.op \in LoadOps /\ last.address >= SanityCeiling) => last.err # "none"

(***************************************************************************)
(* C10 as stated, for the patch's own ISA mode: after patch(a, code = c,   *)
(* thumb = t) the cache entry that fetch(a, t) returns is the first        *)
(* instruction assembled from c, and no address the patch covers is still  *)
(* cached as decoded from memory.                                          *)
(***************************************************************************)
C10_PatchReplacesCached ==
    (last.op = "patch" /\ last.data[1] # <<>> /\ last.err = "none") =>
        LET code == last.data[1]
            isz  == InstrSize(last.thumb)
        IN  /\ Key(last.address, last.thumb) \in DOMAIN instructions
            /\ instructions[Key(last.address, last.thumb)].op = <<"asm", code[1]>>
            /\ \A i \in 1..Len(code) :
                  LET k == Key(last.address + (i - 1) * isz, last.thumb)
                  IN  k \in DOMAIN instructions => instructions[k].op[1] = "asm"

(***************************************************************************)
(* Instructions, as the assembler's text parses                            *)
(***************************************************************************)
Ins(op) ==
    [op |-> op, regs |-> <<>>, dst |-> 0, mode |-> "", writeback |-> FALSE, src0 |-> 0,
     sh |-> Operand(Lit(Zero)), target |-> Lit(Zero), cond |-> ""]

Branch(op, target) == [Ins(op) EXCEPT !.target = target]                \* op target
Move(op, dst, sh) == [Ins(op) EXCEPT !.dst = dst, !.sh = sh]            \* op dst, sh
Alu(op, dst, src0, sh) ==                                               \* op dst, src0, sh
    [Ins(op) EXCEPT !.dst = dst, !.src0 = src0, !.sh = sh]
Compare(op, src0, sh) == [Ins(op) EXCEPT !.src0 = src0, !.sh = sh]      \* op src0, sh
Stack(op, regs) == [Ins(op) EXCEPT !.regs = regs]                       \* op {regs}
Multiple(op, mode, left, writeback, regs) ==                            \* op+mode left(!), {regs}
    [Ins(op) EXCEPT !.mode = mode, !.src0 = left, !.writeback = writeback, !.regs = regs]
StoreReg(op, rn, base, mode, sh) ==                                     \* op rn, [base, sh]
    [Ins(op) EXCEPT !.dst = rn, !.src0 = base, !.mode = mode, !.sh = sh]
When(i, cond) == [i EXCEPT !.cond = cond]

\* the cache line step fetched first in the last call
Executed == instructions[Key(Value(cpu.before.regs[PC]), cpu.before.thumb)]

(***************************************************************************)
(* SpecStep: the step loop.  One-instruction patches at two addresses,     *)
(* the first with or without an HLE handler, a hook that returns or       *)
(* raises, and step with a repeat count and a breakpoint.                  *)
(***************************************************************************)
StepInstrs ==
    { Ins("nop"),
      Ins("frob"),                              \* no op_frob method
      Branch("b", Lit(Zero)),                   \* b 0
      Stack("push", <<0>>) }                    \* push {r0}

NextInstrs == {Ins("nop"), Branch("b", Lit(PyInt(FlashA)))}     \* nop; b 0x100

Breakpoints == {NoBreak, PyInt(FlashA + 4)}

Repeats == {1, 2}

\* patch(a, code = i, hle = h, thumb = False) at an address not yet cached
PatchInstr(a, i, h) ==
    /\ Key(a, 0) \notin DOMAIN instructions
    /\ Patch(a, <<i>>, h, 0)

NextStep ==
    \/ \E i \in StepInstrs, h \in HleBodies : PatchInstr(FlashA, i, h)
    \/ \E i \in NextInstrs : PatchInstr(FlashA + 4, i, "")
    \/ \E fn \in {"ok", "raise"} : Hook(FlashA, fn)
    \/ HleInit
    \/ CpuReset(PyInt(FlashA))
    \/ \E r \in Repeats, bp \in Breakpoints : CpuStep(r, bp, 1, MinAvail)

SpecStep == Init /\ [][NextStep]_vars

\* the address of the instruction the last iteration of the last step ran
LastIter ==
    LET its == SelectSeq(cpu.events, LAMBDA e : e[1] = "iter")
    IN  its[Len(its)][2]

(***************************************************************************)
(* C11 as stated.  When step raises, pc is the address of the instruction  *)
(* that was being executed.                                                *)
(***************************************************************************)
C11_PcRolledBack ==
    (cpu.op = "step" /\ cpu.err # "none") => arm.regs[PC] = PyInt(LastIter)

(***************************************************************************)
(* C12 as stated.  After a step of one instruction whose opfunc completed, *)
(* pc is the branch target the opfunc wrote, and the instruction's         *)
(* next_address only when it wrote none.                                   *)
(***************************************************************************)
C12_PcIsBranchTarget ==
    (cpu.op = "step" /\ cpu.err = "none" /\ cpu.repeat = 1) =>
        arm.regs[PC] = IF arm._branch # NoBranch THEN arm._branch
                       ELSE PyInt(Executed.next_address)

(***************************************************************************)
(* C13 as stated.  In a step that completed, every opfunc that ran is      *)
(* followed by the HLE handler of its instruction, when it has one, and    *)
(* then by the hook registered at its address, when there is one.          *)
(***************************************************************************)
HasHle(a) == instructions[Key(a, 0)].hle # NoHle

HasHook(a) == a \in DOMAIN hooks

C13_HleThenHook ==
    (cpu.op = "step" /\ cpu.err = "none") =>
        \A k \in 1..Len(cpu.events) :
            cpu.events[k][1] = "opfunc" =>
                LET a      == cpu.events[k][2]
                    rest   == SubSeq(cpu.events, k + 1, Len(cpu.events))
                    after  == IF HasHle(a) THEN <<<<"hle", a>>>> ELSE <<>>
                    expect == after \o (IF HasHook(a) THEN <<<<"hook", a>>>> ELSE <<>>)
                IN  IsPrefix(expect, rest)

(***************************************************************************)
(* SpecCond: conditional execution.  One conditional instruction at the    *)
(* reset vector, for every suffix and three base operations that each      *)
(* change a register, the program counter or memory whenever they run.     *)
(* The SimARM is reset once, the flags are set through the state property  *)
(* to one of the 16 combinations, and the instruction is stepped.          *)
(***************************************************************************)
CondBases ==
    { Alu("adds", 0, 0, Operand(Lit(One))),                 \* adds r0, r0, #1
      Branch("b", Lit(PyInt(2 * FlashA))),                  \* b 0x200
      Multiple("stm", "ia", 1, TRUE, <<0>>) }               \* stmia r1!, {r0}

CondInstrs == {When(i, cond) : i \in CondBases, cond \in Suffixes}

Flags == [cpsrN : {0, 1}, cpsrZ : {0, 1}, cpsrC : {0, 1}, cpsrV : {0, 1}]

\* s = arm.state with the flags f and r1 pointing into RAM
CondState(f) ==
    [state(arm) EXCEPT !.cpsrN = f.cpsrN, !.cpsrZ = f.cpsrZ, !.cpsrC = f.cpsrC,
                       !.cpsrV = f.cpsrV, !.regs[1] = PyInt(RamA)]

NextCond ==
    \/ \E i \in CondInstrs : PatchInstr(FlashA, i, "")
    \/ cpu.op = "init" /\ CpuReset(PyInt(FlashA))
    \/ cpu.op = "reset" /\ \E f \in Flags : SetState(CondState(f))
    \/ CpuStep(1, NoBreak, 1, MinAvail)

SpecCond == Init /\ [][NextCond]_vars

\* the standard ARM condition table, on the flags N, Z, C, V
StandardTable(cond, N, Z, C, V) ==
    CASE cond = "eq" -> Z
      [] cond = "ne" -> ~Z
      [] cond \in {"cs", "hs"} -> C
      [] cond \in {"cc", "lo"} -> ~C
      [] cond = "mi" -> N
      [] cond = "pl" -> ~N
      [] cond = "vs" -> V
      [] cond = "vc" -> ~V
      [] cond = "hi" -> C /\ ~Z
      [] cond = "ls" -> Z \/ ~C
      [] cond = "ge" -> N = V
      [] cond = "lt" -> N # V
      [] cond = "gt" -> (N = V) /\ ~Z
      [] cond = "le" -> (N # V) \/ Z
      [] cond = "al" -> TRUE

\* the instruction at pc, when there is one
AtPc == instructions[Key(Value(arm.regs[PC]), arm.thumb)].op[2]

\* what a step leaves of the SimARM when the operation did not run
Skipped ==
    [arm EXCEPT !.regs[PC] = PyInt(instructions[Key(Value(arm.regs[PC]), arm.thumb)].next_address),
                !.step_count = @ + 1,
                !._branch = NoBranch]

(***************************************************************************)
(* C14.  A step of a conditional instruction runs the base operation if    *)
(* and only if the suffix's predicate of the standard table holds on the   *)
(* flags before the step; when it does not hold the step changes no        *)
(* register, flag, thumb bit or memory state and leaves pc at the          *)
(* instruction's next_address.                                             *)
(***************************************************************************)
C14_ConditionTable ==
    [][(cpu'.op = "step" /\ cpu' # cpu /\ cpu'.err = "none") =>
        (StandardTable(AtPc.cond, arm.cpsrN = 1, arm.cpsrZ = 1, arm.cpsrC = 1, arm.cpsrV = 1)
         <=> ~(arm' = Skipped /\ UNCHANGED <<mem, rle, local_data, local_addresses, devWrites>>))]_cpu

\* a step of a conditional instruction whose predicate was false
C14_Witness ==
    /\ cpu.op = "step"
    /\ cpu.err = "none"
    /\ Executed.op[2].cond = "gt"
    /\ cpu.before.cpsrZ = 1
    /\ cpu.before.cpsrN = cpu.before.cpsrV
    /\ arm.regs[0] = Zero
    /\ arm.regs[PC] = PyInt(FlashA + 4)

(***************************************************************************)
(* SpecAlu: the data-processing operations.  One instruction at the reset  *)
(* vector; after the reset r0, r1 and the carry flag are set through the   *)
(* state property to boundary values, and the instruction is stepped.  A   *)
(* reset to any of three vectors may follow a step.                        *)
(***************************************************************************)
ByOne(kind) == Shifted(Reg(0), kind, Lit(One))              \* r0, kind #1

AluInstrs ==
    { Move("clz", 2, Operand(Reg(0))),                      \* clz r2, r0
      Alu("adds", 2, 0, Operand(Reg(1))),                   \* adds r2, r0, r1
      Alu("adds", 2, 1, ByOne("lsl")),                      \* adds r2, r1, r0, lsl #1
      Alu("adcs", 2, 0, Operand(Reg(1))),                   \* adcs r2, r0, r1
      Compare("cmn", 0, Operand(Reg(1))),                   \* cmn r0, r1
      Alu("subs", 2, 0, Operand(Reg(1))),                   \* subs r2, r0, r1
      Alu("sbcs", 2, 0, Operand(Reg(1))),                   \* sbcs r2, r0, r1
      Alu("rsbs", 2, 0, Operand(Reg(1))),                   \* rsbs r2, r0, r1
      Compare("cmp", 0, Operand(Reg(1))),                   \* cmp r0, r1
      Move("negs", 2, Operand(Reg(0))),                     \* negs r2, r0
      Move("mvns", 1, ByOne("lsr")),                        \* mvns r1, r0, lsr #1
      Alu("bics", 2, 1, ByOne("lsr")),                      \* bics r2, r1, r0, lsr #1
      Alu("orrs", 2, 1, ByOne("lsr")),                      \* orrs r2, r1, r0, lsr #1
      Alu("ands", 2, 1, ByOne("lsr")),                      \* ands r2, r1, r0, lsr #1
      Alu("eors", 2, 1, ByOne("lsr")),                      \* eors r2, r1, r0, lsr #1
      Compare("tst", 1, ByOne("lsr")),                      \* tst r1, r0, lsr #1
      Compare("teq", 1, ByOne("lsr")),                      \* teq r1, r0, lsr #1
      Multiple("stm", "da", 1, TRUE, <<0>>),                \* stmda r1!, {r0}
      Branch("bl", Lit(PyInt(2 * FlashA))) }                \* bl 0x200
    \cup {Move("movs", 1, ByOne(k)) : k \in {"lsl", "lsr", "asr", "ror", "rol"}}

Operands == {Zero, One, PyWord(32767, 65535), SignBit, Mask32}

\* s = arm.state with r0 = x, r1 = y and the carry flag c
AluState(x, y, c) == [state(arm) EXCEPT !.regs[0] = x, !.regs[1] = y, !.cpsrC = c]

ResetVectors == {PyInt(FlashA), PyInt(FlashA + 1), Mask32}

NextAlu ==
    \/ \E i \in AluInstrs : PatchInstr(FlashA, i, "")
    \/ cpu.op = "init" /\ CpuReset(PyInt(FlashA))
    \/ cpu.op = "reset" /\ cpu.before.step_count = 0 /\
            \E x, y \in Operands, c \in {0, 1} : SetState(AluState(x, y, c))
    \/ CpuStep(1, NoBreak, 1, MinAvail)
    \/ cpu.op = "step" /\ \E v \in ResetVectors : CpuReset(v)

SpecAlu == Init /\ [][NextAlu]_vars

(***************************************************************************)
(* C15.  After reset(v): pc is v with bit 0 cleared, thumb is bit 0 of v,  *)
(* lr is 0xFFFFFFFF, r0..r13 are 0, the flags N, Z, C, V are clear and     *)
(* step_count is 0, whatever the state before the reset.                   *)
(***************************************************************************)
C15_ResetState ==
    cpu.op = "reset" =>
        /\ arm.regs[PC] = Pack([k \in 1..IntBits |-> IF k = 1 THEN 0 ELSE cpu.value[k]])
        /\ arm.thumb = cpu.value[1]
        /\ arm.regs[LR] = Mask32
        /\ \A r \in 0..SP : arm.regs[r] = Zero
        /\ arm.cpsrN = 0 /\ arm.cpsrZ = 0 /\ arm.cpsrC = 0 /\ arm.cpsrV = 0
        /\ arm.step_count = 0

\* a reset to an odd vector after a step that set registers and flags
C15_Witness ==
    /\ cpu.op = "reset"
    /\ cpu.value = PyInt(FlashA + 1)
    /\ cpu.before.step_count = 1
    /\ cpu.before.regs[2] = Mask32
    /\ cpu.before.cpsrN = 1
    /\ arm.thumb = 1

\* the 32-bit registers: every entry of regs is in [0, 2^32)
InRange(a) == \A r \in RegNums : a.regs[r] = And(a.regs[r], Mask32)

(***************************************************************************)
(* C16 as stated.  A step that completes from a state whose registers are  *)
(* all in [0, 2^32) leaves every register in [0, 2^32).                    *)
(***************************************************************************)
C16_RegistersMasked ==
    (cpu.op = "step" /\ cpu.err = "none" /\ InRange(cpu.before)) => InRange(arm)

\* the low 32 bits of x, and x read as a signed 32-bit number
Low32(x) == And(x, Mask32)

Signed(x) == IF Bit31(x) = 1 THEN Or(Low32(x), Inv(Mask32)) ELSE Low32(x)

\* the last call was a step that completed the unconditional instruction
\* Executed, one of ops, from registers in range
Ran(ops) ==
    /\ cpu.op = "step"
    /\ cpu.err = "none"
    /\ InRange(cpu.before)
    /\ Executed.op[2].op \in ops
    /\ Executed.op[2].cond = ""

\* the 32-bit shifter operand of the instruction Executed, and its carry-out
Operand2 == Low32(_shifter(cpu.before, Executed.op[2].sh)[1])

CarryOut == _shifter(cpu.before, Executed.op[2].sh)[2]

\* no register but pc differs from before the step
NoRegisterWritten == \A r \in RegNums \ {PC} : arm.regs[r] = cpu.before.regs[r]

(***************************************************************************)
(* C17 as stated.  After adds, adcs or cmn the flags are those of the      *)
(* 32-bit addition a + b (+ C_in for adcs), b being the 32-bit shifter     *)
(* result: N is bit 31 of the sum, Z says its low 32 bits are zero, C is   *)
(* the carry out of bit 31 and V the signed overflow; adds and adcs write  *)
(* the low 32 bits to dst, cmn writes no register.                         *)
(***************************************************************************)
C17_AddFlags ==
    Ran({"adds", "adcs", "cmn"}) =>
        LET i   == Executed.op[2]
            a   == cpu.before.regs[i.src0]
            b   == Operand2
            sum == AddC(a, b, IF i.op = "adcs" THEN cpu.before.cpsrC ELSE 0)
        IN  /\ arm.cpsrN = Bit31(sum)
            /\ arm.cpsrZ = B(Low32(sum) = Zero)
            /\ arm.cpsrC = BitAt(sum, 32)
            /\ arm.cpsrV = B(Bit31(a) = Bit31(b) /\ Bit31(sum) # Bit31(a))
            /\ IF i.op = "cmn" THEN NoRegisterWritten ELSE arm.regs[i.dst] = Low32(sum)

(***************************************************************************)
(* C18 as stated.  After subs, sbcs, rsbs, cmp or negs, N is bit 31 of the *)
(* 32-bit result, Z says the result is zero, V is the signed overflow of   *)
(* the subtraction and C is the inverted borrow of the subtraction         *)
(* performed, which for sbcs is a - b - (1 - C_in).                        *)
(***************************************************************************)
C18_SubFlags ==
    Ran({"subs", "sbcs", "rsbs", "cmp", "negs"}) =>
        LET i    == Executed.op[2]
            a    == CASE i.op = "rsbs" -> Operand2
                      [] i.op = "negs" -> Zero
                      [] OTHER -> cpu.before.regs[i.src0]
            b    == IF i.op = "rsbs" THEN cpu.before.regs[i.src0] ELSE Operand2
            bin  == IF i.op = "sbcs" THEN 1 - cpu.before.cpsrC ELSE 0
            diff == Sub(Sub(a, b), PyInt(bin))
            sdif == Sub(Sub(Signed(a), Signed(b)), PyInt(bin))
        IN  /\ arm.cpsrN = Bit31(diff)
            /\ arm.cpsrZ = B(Low32(diff) = Zero)
            /\ arm.cpsrC = B(~IsNeg(diff))
            /\ arm.cpsrV = B(Signed(sdif) # sdif)
            /\ IF i.op = "cmp" THEN NoRegisterWritten ELSE arm.regs[i.dst] = Low32(diff)

(***************************************************************************)
(* C19 as stated.  After movs with a shifted-register operand dst holds    *)
(* the 32-bit shifter result, Z is 1 exactly when that value is zero, N is *)
(* its bit 31 and C is the shifter's carry-out.                            *)
(***************************************************************************)
C19_MovsShifted ==
    (Ran({"movs"}) /\ Executed.op[2].sh.kind # "") =>
        /\ arm.regs[Executed.op[2].dst] = Operand2
        /\ arm.cpsrZ = B(Operand2 = Zero)
        /\ arm.cpsrN = Bit31(Operand2)
        /\ arm.cpsrC = CarryOut

(***************************************************************************)
(* C20 as stated, its part on the carry.  After movs, mvns, bics, orrs,    *)
(* ands, eors, tst or teq the C flag is the carry-out of the shifter       *)
(* operand, whatever C was before.                                         *)
(***************************************************************************)
C20_LogicalCarry ==
    Ran({"movs", "mvns", "bics", "orrs", "ands", "eors", "tst", "teq"}) =>
        arm.cpsrC = CarryOut

(***************************************************************************)
(* SpecShift: the shift functions, each applied to a 32-bit operand and a  *)
(* shift amount; cpu holds the call and the pair it returned.              *)
(***************************************************************************)
ShiftOperands ==
    {Zero, One, PyInt(6), PyWord(32767, 65535), SignBit, PyWord(49152, 1), Mask32}

ShiftAmounts == {PyInt(0), PyInt(1), PyInt(4), PyInt(31), PyInt(32), PyInt(33)}

ShiftNames == {"lsl", "lsr", "asr", "ror", "rol", "rrx"}

ShiftCall(name, a, b, carry, value) ==
    /\ cpu' = [op |-> name, a |-> a, b |-> b, carry |-> carry, value |-> value]
    /\ UNCHANGED <<memvars, hooks, arm>>

NextShift ==
    \E a \in ShiftOperands, b \in ShiftAmounts :
        \/ ShiftCall("lsl", a, b, 0, lsl(a, b))
        \/ ShiftCall("lsr", a, b, 0, lsr(a, b))
        \/ ShiftCall("asr", a, b, 0, asr(a, b))
        \/ ShiftCall("ror", a, b, 0, ror(a, b))
        \/ ShiftCall("rol", a, b, 0, rol(a, b))
        \/ \E carry \in {0, 1} : ShiftCall("rrx", a, b, carry, rrx(a, b, carry))

SpecShift == Init /\ [][NextShift]_vars

\* the 32-bit word whose bit k is bit(k), for k in 0..31
Word32(bit(_)) == Pack([k \in 1..IntBits |-> IF k <= 32 THEN bit(k - 1) ELSE 0])

\* the 32-bit shift or rotate of a by n places, 0 <= n < 32; rrx rotates
\* the 33 bits made of a and the carry
Shift32(name, a, n, carry) ==
    LET ext(j) == IF j = 32 THEN carry ELSE BitAt(a, j)
        bit(k) ==
            CASE name = "lsl" -> IF k >= n THEN BitAt(a, k - n) ELSE 0
              [] name = "lsr" -> IF k + n <= 31 THEN BitAt(a, k + n) ELSE 0
              [] name = "asr" -> IF k + n <= 31 THEN BitAt(a, k + n) ELSE BitAt(a, 31)
              [] name = "ror" -> BitAt(a, (k + n) % 32)
              [] name = "rol" -> BitAt(a, (k + 32 - n) % 32)
              [] name = "rrx" -> ext((k + n) % 33)
    IN  Word32(bit)

(***************************************************************************)
(* C21 as stated.  Each shift function, applied to a 32-bit a and any b,   *)
(* returns a pair (result, carry): the result is in [0, 2^32) and is the   *)
(* 32-bit shift or rotate of a by b & 31, the carry is 0 or 1, and for lsl *)
(* with b & 31 # 0 the carry is bit 32 - (b & 31) of a.                    *)
(***************************************************************************)
C21_ShiftsAre32Bit ==
    cpu.op \in ShiftNames =>
        /\ cpu.value[1] = And(cpu.value[1], Mask32)
        /\ cpu.value[1] = Shift32(cpu.op, cpu.a, ShiftCount(cpu.b), cpu.carry)
        /\ cpu.value[2] \in {0, 1}
        /\ (cpu.op = "lsl" /\ ShiftCount(cpu.b) # 0) =>
                cpu.value[2] = BitAt(cpu.a, 32 - ShiftCount(cpu.b))

\* the number of zero bits above the highest set bit of the 32-bit word x
LeadingZeros(x) == Cardinality({k \in 0..31 : \A j \in k..31 : BitAt(x, j) = 0})

(***************************************************************************)
(* C22 as stated.  clz writes to its destination the number of leading     *)
(* (most significant) zero bits of the 32-bit operand: 32 for 0, 0 for an  *)
(* operand with bit 31 set, 31 for 1.                                      *)
(***************************************************************************)
C22_ClzLeadingZeros ==
    Ran({"clz"}) => arm.regs[Executed.op[2].dst] = PyInt(LeadingZeros(Operand2))

(***************************************************************************)
(* SpecLdstm: load and store multiple.  A region of local RAM is filled by *)
(* a first instruction, stmia r0, {r2-r6}; the second instruction is an    *)
(* stm or ldm of r7 and r8 in any mode, with or without writeback, from    *)
(* the base r1 inside the region; stmda r1!, {r7} also runs from base 0.   *)
(***************************************************************************)
LdstmModes == {"", "ia", "ib", "da", "db", "fd", "fa", "ed", "ea"}

LdstmFill == Multiple("stm", "ia", 0, FALSE, <<2, 3, 4, 5, 6>>)

LdstmInstrs ==
    {Multiple(op, mode, 1, wb, <<7, 8>>) :
        op \in {"stm", "ldm"}, mode \in LdstmModes, wb \in BOOLEAN}
    \cup {Multiple("stm", "da", 1, TRUE, <<7>>)}

LdstmBases == {PyInt(RamA + 8), Zero}

LdstmState(base) ==
    [state(arm) EXCEPT
        !.regs = [r \in RegNums |->
                    CASE r = 0 -> PyInt(RamA)
                      [] r = 1 -> base
                      [] r \in 2..6 -> PyInt(Word(r, r, r, r))
                      [] r = 7 -> PyInt(W1)
                      [] r = 8 -> PyInt(W2)
                      [] OTHER -> @[r]]]

NextLdstm ==
    \/ ram = {} /\ LocalRam(<<RamA, RamA + 19>>)
    \/ PatchInstr(FlashA, LdstmFill, "")
    \/ \E i \in LdstmInstrs : PatchInstr(FlashA + 4, i, "")
    \/ cpu.op = "init" /\ ram # {} /\ CpuReset(PyInt(FlashA))
    \/ cpu.op = "reset" /\ \E base \in LdstmBases : SetState(LdstmState(base))
    \/ cpu.op # "reset" /\ CpuStep(1, NoBreak, 1, MinAvail)

SpecLdstm == Init /\ [][NextLdstm]_vars

\* the ARM addressing mode of each mnemonic: the stack mnemonics name the
\* stack's kind, full or empty and ascending or descending
StandardMode(op, mode) ==
    CASE mode = "" -> "ia"
      [] mode \in {"ia", "ib", "da", "db"} -> mode
      [] op = "stm" /\ mode = "fd" -> "db"
      [] op = "stm" /\ mode = "fa" -> "ib"
      [] op = "stm" /\ mode = "ed" -> "da"
      [] op = "stm" /\ mode = "ea" -> "ia"
      [] op = "ldm" /\ mode = "fd" -> "ia"
      [] op = "ldm" /\ mode = "fa" -> "da"
      [] op = "ldm" /\ mode = "ed" -> "ib"
      [] op = "ldm" /\ mode = "ea" -> "db"

\* the word the shadow holds at address a
ShadowWord(a) == unpack(StreamRead(local_data, a, 4))

\* the last call was a step that completed the unconditional stm or ldm
\* Executed, whose list does not hold the base
LdstmRan ==
    /\ cpu.op = "step"
    /\ cpu.err = "none"
    /\ Executed.op[2].op \in {"stm", "ldm"}
    /\ Executed.op[2].cond = ""
    /\ Executed.address = FlashA + 4
    /\ \A k \in DOMAIN Executed.op[2].regs : Executed.op[2].regs[k] # Executed.op[2].src0

\* the k-th listed register (k from 0) went to or came from address a
Transferred(i, k, a) ==
    IF i.op = "stm"
    THEN ShadowWord(a) = Value(cpu.before.regs[i.regs[k + 1]])
    ELSE arm.regs[i.regs[k + 1]] = PyInt(ShadowWord(a))

(***************************************************************************)
(* C23 as stated.  After an ldm or stm over n registers, none of them the  *)
(* base: with writeback the base register is base + 4n in the incrementing *)
(* modes and base - 4n in the decrementing ones, without it the base is    *)
(* unchanged; in mode ia the k-th register is transferred at base + 4k, in *)
(* mode ib at base + 4(k + 1) (observed where the addresses are local).    *)
(***************************************************************************)
C23_LdstmWriteback ==
    LdstmRan =>
        LET i    == Executed.op[2]
            base == cpu.before.regs[i.src0]
            n    == Len(i.regs)
            impl == StandardMode(i.op, i.mode)
        IN  /\ arm.regs[i.src0] =
                    IF ~i.writeback THEN base
                    ELSE IF impl \in {"ia", "ib"} THEN Add(base, PyInt(4 * n))
                    ELSE Sub(base, PyInt(4 * n))
            /\ (impl \in {"ia", "ib"} /\ base = PyInt(RamA + 8)) =>
                    \A k \in 0..(n - 1) :
                        Transferred(i, k, RamA + 8 + 4 * k + (IF impl = "ib" THEN 4 ELSE 0))

\* stmfd r1!, {r7, r8} has stored r7, then r8, downwards from the base and
\* moved the base
C23_Witness ==
    /\ LdstmRan
    /\ Executed.op[2].op = "stm"
    /\ Executed.op[2].mode = "fd"
    /\ Executed.op[2].writeback
    /\ arm.regs[1] = PyInt(RamA)
    /\ ShadowWord(RamA + 4) = W1
    /\ ShadowWord(RamA) = W2

(***************************************************************************)
(* SpecStack: push, one instruction that leaves the stack alone, and pop,  *)
(* run by one step(3) from a stack pointer inside local RAM or, where      *)
(* local_ram was not called, on the device.                                *)
(***************************************************************************)
PushLists == {<<4>>, <<4, 5>>, <<4, LR>>, <<SP>>}

PopLists == PushLists \cup {<<4, PC>>}

Between == {Ins("nop"), Move("mov", 4, Operand(Lit(Zero)))}

ReturnAddresses ==
    {Zero, One, PyInt(2 * FlashA), PyInt(2 * FlashA + 1), PyWord(32639, 32382)}

StackState(x) ==
    [state(arm) EXCEPT !.regs[SP] = PyInt(RamA + 16), !.regs[4] = PyInt(W1),
                       !.regs[5] = PyInt(W2), !.regs[LR] = x]

NextStack ==
    \/ ram = {} /\ cpu.op = "init" /\ LocalRam(<<RamA, RamA + 31>>)
    \/ \E regs \in PushLists : PatchInstr(FlashA, Stack("push", regs), "")
    \/ \E i \in Between : PatchInstr(FlashA + 4, i, "")
    \/ \E regs \in PopLists : PatchInstr(FlashA + 8, Stack("pop", regs), "")
    \/ cpu.op = "init" /\ CpuReset(PyInt(FlashA))
    \/ cpu.op = "reset" /\ \E x \in ReturnAddresses : SetState(StackState(x))
    \/ cpu.op = "set_state" /\ CpuStep(3, NoBreak, 1, MinAvail)

SpecStack == Init /\ [][NextStack]_vars

\* the last call was a step that completed push, the instruction between
\* and pop
StackRan ==
    /\ cpu.op = "step"
    /\ cpu.err = "none"
    /\ cpu.repeat = 3
    /\ arm.step_count = 3

Pushed == instructions[Key(FlashA, 0)].op[2].regs

Popped == instructions[Key(FlashA + 8, 0)].op[2].regs

(***************************************************************************)
(* C24 as stated.  push L followed by pop L, L without pc, restores every  *)
(* register of L and sp to their values before the push; push {r4, lr}     *)
(* followed by pop {r4, pc} leaves pc = x & ~1 and thumb = x & 1, x being  *)
(* the value lr held, with r4 and sp restored.                             *)
(***************************************************************************)
C24_PushPopRoundTrip ==
    StackRan =>
        /\ (Popped = Pushed) =>
                /\ \A k \in DOMAIN Pushed : arm.regs[Pushed[k]] = cpu.before.regs[Pushed[k]]
                /\ arm.regs[SP] = cpu.before.regs[SP]
        /\ (Pushed = <<4, LR>> /\ Popped = <<4, PC>>) =>
                /\ arm.regs[PC] = And(cpu.before.regs[LR], MaskEven)
                /\ arm.thumb = BitAt(cpu.before.regs[LR], 0)
                /\ arm.regs[4] = cpu.before.regs[4]
                /\ arm.regs[SP] = cpu.before.regs[SP]

(***************************************************************************)
(* SpecHalf: half-word stores and loads, at RAM and flash addresses, on    *)
(* the device and, after local_ram, on the shadow.                         *)
(***************************************************************************)
HalfWordAddrs == {RamA, FlashA}

HalfValues == {H1, Word(0, 1, 35, 69)}      \* 0x2B4D and 0x12345

HalfRanges == {<<RamA, RamA + 1>>, <<FlashA, FlashA + 1>>}

NextHalf ==
    \/ \E r \in HalfRanges : ram = {} /\ LocalRam(r)
    \/ \E a \in HalfWordAddrs, v \in HalfValues : Len(stored) < MaxForwarded + 1 /\ StoreHalf(a, v)
    \/ \E a \in HalfWordAddrs : LoadHalf(a, MinAvail)

SpecHalf == Init /\ [][NextHalf]_vars

\* the write calls among cs that cover address a or a + 1
WritesAt(cs, a) ==
    SelectSeq(cs, LAMBDA c : IsWrite(c) /\ c.address \in {a, a + 1})

(***************************************************************************)
(* C25 as stated.  store_half(a, v) followed by load_half(a): the load     *)
(* returns v & 0xFFFF, whether the store went to the shadow or to the run  *)
(* encoder; in the latter case the store reaches the transport, when the   *)
(* load flushes it, as the two calls poke_byte(a, v & 0xFF) and            *)
(* poke_byte(a + 1, (v >> 8) & 0xFF).                                      *)
(***************************************************************************)
C25_HalfRoundTrip ==
    [][(/\ last.op = "store_half"
        /\ last'.op = "load_half"
        /\ last'.address = last.address) =>
            /\ last.err = "none"
            /\ last'.err = "none"
            /\ last'.ret = last.data % 65536
            /\ last.path = "rle" =>
                    WritesAt(last'.calls, last.address) =
                        <<Call("poke_byte", last.address, last.data % 256, 1),
                          Call("poke_byte", last.address + 1, (last.data \div 256) % 256, 1)>>]_last

(***************************************************************************)
(* SpecSnap: save_state and load_state of one file base, with local_ram,   *)
(* stores, flushes, resets and state assignments before, between and       *)
(* after them.                                                             *)
(***************************************************************************)
SnapBase == "snap"

SnapRanges == {<<RamA, RamA + 3>>, <<FlashA, FlashA + 1>>}

SnapAddrs == {RamA, FlashA}

SnapState ==
    [state(arm) EXCEPT !.regs[0] = PyInt(W1), !.regs[SP] = PyInt(-4), !.cpsrZ = 1,
                       !.cpsrC = 1, !.step_count = 2]

\* a behaviour ends with load_state, so that cpu.op = "load_state" describes
\* the simulator as load_state left it
NextSnap ==
    /\ cpu.op # "load_state"
    /\ \/ \E r \in SnapRanges : r \notin ram /\ LocalRam(r)
       \/ \E a \in SnapAddrs, v \in {W1, W2} : Len(stored) < MaxForwarded /\ Store(a, v)
       \/ rle.count > 0 /\ Flush
       \/ cpu.op \in {"init", "save_state"} /\ SetState(SnapState)
       \/ saved = <<>> /\ CpuSaveState(SnapBase)
       \/ CpuLoadState(SnapBase)

SpecSnap == Init /\ [][NextSnap]_vars

\* the bytes of the presence stream at the width of the load at address a
AllPresent(m, a, width) == StreamRead(m.local_addresses, a, width) = Repeat(255, width)

\* what load_half(a) returns or raises in the simulator m
HalfLoaded(m, a) == <<load_half(m, a, MinAvail).err, load_half(m, a, MinAvail).ret>>

\* the simulator is as load_state's file base was saved: registers, flags,
\* thumb, step_count, the presence stream and the shadow data
Restored ==
    /\ state(arm) = saved[cpu.filebase].state
    /\ local_addresses = saved[cpu.filebase].m.local_addresses
    /\ local_data = saved[cpu.filebase].m.local_data

(***************************************************************************)
(* C26 as stated.  load_state(base) after save_state(base) leaves the      *)
(* registers, the flags, thumb, step_count, the presence stream and the    *)
(* shadow data as they were at the save, so that a load of a locally       *)
(* present address returns what it returned at the save; the instruction   *)
(* cache, the skip, patch and hook tables and the pending run are left as  *)
(* load_state found them.                                                  *)
(***************************************************************************)
C26_SnapshotRoundTrip ==
    /\ [](cpu.op = "load_state" /\ cpu.err = "none" =>
            /\ Restored
            /\ \A a \in SnapAddrs :
                    AllPresent(saved[SnapBase].m, a, 2) =>
                        HalfLoaded(Cur, a) = HalfLoaded(saved[SnapBase].m, a))
    /\ [][cpu'.op = "load_state" =>
            UNCHANGED <<rle, skip_stores, instructions, patch_notes, patch_hle, hooks>>]_cpu

(***************************************************************************)
(* SpecRle: a RunEncoder on its own, under any sequence of write and flush *)
(* calls.  cpu records the call, the encoder as the call found it, the     *)
(* tuple returned, the number of write calls so far and the sum of the     *)
(* counts returned so far.                                                 *)
(***************************************************************************)
RleAddrs == {RamA, RamA + 1, RamA + 2, RamA + 4}

RlePatterns == {B1, B1 + 1}

RleSizes == {1, 2, 4}

RleWrites == IF cpu.op = "init" THEN 0 ELSE cpu.writes

RleReturned == IF cpu.op = "init" THEN 0 ELSE cpu.returned

RleCall(op, args, out, n) ==
    /\ rle' = out.rle
    /\ cpu' = [op |-> op, args |-> args, before |-> rle, r |-> out.r,
               writes |-> RleWrites + n, returned |-> RleReturned + out.r[1]]
    /\ UNCHANGED <<local_addresses, local_data, skip_stores, instructions, patch_notes,
                   patch_hle, hle_handlers, hle_symbols, files, mem, devWrites, stored,
                   ram, last, saved, hooks, arm>>

NextRle ==
    \/ \E a \in RleAddrs, p \in RlePatterns, sz \in RleSizes :
            /\ RleWrites < MaxStores
            /\ RleCall("write", <<a, p, sz>>, RunEncoder_write(rle, a, p, sz), 1)
    \/ cpu.op # "flush" /\ RleCall("flush", <<>>, RunEncoder_flush(rle), 0)

SpecRle == Init /\ [][NextRle]_vars

\* the write continues the run the encoder holds
ExtendsRun(e, args) ==
    /\ e.count > 0
    /\ args[1] = e.key[1] + e.count * e.key[3]
    /\ args[2] = e.key[2]
    /\ args[3] = e.key[3]

(***************************************************************************)
(* C27.  write(address, pattern, size) extends the run and returns a       *)
(* zero-count tuple exactly when address = start + count * size with the   *)
(* pattern and the size of the run; otherwise, the first write and a write *)
(* after flush included, it returns the accumulated run and starts a run   *)
(* of length 1 at the new address.  The counts returned so far plus the    *)
(* pending count equal the number of write calls.                          *)
(***************************************************************************)
C27_RunEncoderWrite ==
    /\ cpu.op = "write" =>
        IF ExtendsRun(cpu.before, cpu.args)
        THEN /\ rle = [cpu.before EXCEPT !.count = @ + 1]
             /\ cpu.r[1] = 0
        ELSE /\ rle = [count |-> 1, key |-> cpu.args]
             /\ cpu.r = <<cpu.before.count>> \o cpu.before.key
    /\ cpu.op \in {"write", "flush"} => cpu.returned + rle.count = cpu.writes

\* a third write has extended a run of two halfwords, and a run has been returned
C27_Witness ==
    /\ cpu.op = "write"
    /\ ExtendsRun(cpu.before, cpu.args)
    /\ rle = [count |-> 2, key |-> <<RamA, B1, 2>>]
    /\ cpu.returned = 1

(***************************************************************************)
(* SpecPost: post_rle_store on its own, for runs of 0 to MaxStores + 1     *)
(* stores below, up to and at the sanity ceiling.  cpu records the         *)
(* arguments and what the call issued, logged and raised.                  *)
(***************************************************************************)
PostCounts == 0..(MaxStores + 1)

PostAddrs == {RamA, HighA - 4, SanityCeiling}

PostPatterns == {B1, H1, W1}

PostSizes == {1, 2, 4}

PostRleStore(count, address, pattern, size) ==
    /\ cpu' = [op |-> "post_rle_store", count |-> count, address |-> address,
               pattern |-> pattern, size |-> size,
               out |-> post_rle_store(count, address, pattern, size)]
    /\ UNCHANGED <<memvars, hooks, arm>>

NextPost ==
    \E n \in PostCounts, a \in PostAddrs, p \in PostPatterns, sz \in PostSizes :
        PostRleStore(n, a, p, sz)

SpecPost == Init /\ [][NextPost]_vars

\* the names of the transport calls, in the order issued
CallNames(cs) == [k \in 1..Len(cs) |-> cs[k].call]

\* the addresses of the transport calls, in the order issued
CallAddrs(cs) == [k \in 1..Len(cs) |-> cs[k].address]

\* address + 2k and address + 2k + 1 for k = 0..count-1, ascending
HalfAddresses(address, count) == [k \in 1..(2 * count) |-> address + k - 1]

\* the whole run lies below the sanity ceiling, so check_address lets it pass
RunIsSane == cpu.address + cpu.count * cpu.size <= SanityCeiling

SanityStores ==
    { StoreReg("str", 0, 1, "", Operand(Lit(Zero))),            \* str r0, [r1]
      StoreReg("strh", 0, 1, "+", Operand(Lit(Zero))),          \* strh r0, [r1, #0]
      StoreReg("strb", 0, 1, "", Operand(Lit(Zero))),           \* strb r0, [r1]
      Multiple("stm", "ia", 1, FALSE, <<7>>),                   \* stmia r1, {r7}
      Multiple("stm", "ia", 1, FALSE, <<7, 8>>),                \* stmia r1, {r7, r8}
      Stack("push", <<4>>) }                                    \* push {r4}

SanityNext ==
    { Ins("nop"),
      StoreReg("str", 0, 2, "", Operand(Lit(Zero))) }           \* str r0, [r2]

SanityBases == {SanityCeiling, HighA}

SanityState(base) ==
    [state(arm) EXCEPT
        !.regs = [r \in RegNums |->
                    CASE r = 0 -> PyInt(W1)
                      [] r = 1 -> PyInt(base)
                      [] r = 2 -> PyInt(RamA)
                      [] r = 4 -> PyInt(W1)
                      [] r = 7 -> PyInt(W1)
                      [] r = 8 -> PyInt(W2)
                      [] r = SP -> PyInt(base + 4)
                      [] OTHER -> @[r]]]

NextSanity ==
    \/ \E i \in SanityStores : PatchInstr(FlashA, i, "")
    \/ \E i \in SanityNext : PatchInstr(FlashA + 4, i, "")
    \/ cpu.op = "init" /\ CpuReset(PyInt(FlashA))
    \/ cpu.op = "reset" /\ \E base \in SanityBases : SetState(SanityState(base))
    \/ cpu.op \in {"set_state", "step"} /\ cpu.err = "none" /\ CpuStep(1, NoBreak, 1, MinAvail)
    \/ cpu.op = "step" /\ last.op = "step" /\ last.err = "none" /\ Flush

SpecSanity == Init /\ [][NextSanity]_vars

\* the last call was a step whose instruction is the store at 0x100, to an
\* address at the sanity ceiling
StoredAboveCeiling ==
    /\ cpu.op = "step"
    /\ cpu.before.regs[PC] = PyInt(FlashA)
    /\ cpu.before.regs[1] = PyInt(SanityCeiling)

(***************************************************************************)
(* C29 as stated.  The step that executes a store to a device address at   *)
(* or above 0x05000000 raises the address-sanity error, and leaves pc at   *)
(* the address of the store instruction.                                   *)
(***************************************************************************)
C29_SanityErrorInStoreStep ==
    StoredAboveCeiling =>
        /\ cpu.err = "IndexError"
        /\ arm.regs[PC] = PyInt(FlashA)

(***************************************************************************)
(* SpecPc: the program counter.  ARM code at 0x100, 0x104 and 0x108 and    *)
(* Thumb code at 0x100 and 0x102, every instruction address and every      *)
(* literal branch target even; reset to 0x100 in either mode, then steps   *)
(* of one instruction.                                                     *)
(***************************************************************************)
ReadPc == Move("mov", 0, Operand(Reg(PC)))                      \* mov r0, pc

PcFirst ==
    { ReadPc,
      Ins("nop"),
      Move("mov", 1, Operand(Lit(PyInt(FlashA + 9)))) }         \* mov r1, #0x109

PcSecond ==
    { ReadPc,
      Branch("b", Lit(PyInt(FlashA + 8))),                      \* b 0x108
      Branch("bl", Reg(1)) }                                    \* bl r1

PcThumbFirst ==
    { ReadPc,
      Branch("bl", Reg(LR)) }                                   \* bl lr

\* patch(a, code = i, thumb = t) at an address not yet cached in that mode
PatchMode(a, i, t) ==
    /\ Key(a, t) \notin DOMAIN instructions
    /\ Patch(a, <<i>>, "", t)

NextPc ==
    \/ cpu.op = "init" /\ \E i \in PcFirst : PatchMode(FlashA, i, 0)
    \/ cpu.op = "init" /\ \E i \in PcSecond : PatchMode(FlashA + 4, i, 0)
    \/ cpu.op = "init" /\ PatchMode(FlashA + 8, ReadPc, 0)
    \/ cpu.op = "init" /\ \E i \in PcThumbFirst : PatchMode(FlashA, i, 1)
    \/ cpu.op = "init" /\ PatchMode(FlashA + 2, ReadPc, 1)
    \/ cpu.op = "init" /\ \E t \in {0, 1} : CpuReset(PyInt(FlashA + t))
    \/ cpu.op \in {"reset", "step"} /\ cpu.err = "none" /\ CpuStep(1, NoBreak, 1, MinAvail)

SpecPc == Init /\ [][NextPc]_vars

IsEven(x) == BitAt(x, 0) = 0

\* (x + 3) & ~3 of a number x >= 0
Align4(x) == ((x + 3) \div 4) * 4

\* the last call was a step that completed mov r0, pc
ReadPcRan ==
    /\ cpu.op = "step"
    /\ cpu.err = "none"
    /\ Executed.op[2] = ReadPc

(***************************************************************************)
(* C30 as stated.  The pc an opfunc reads is (next_address + 3) & ~3 in    *)
(* Thumb mode and the instruction's address + 8 in ARM mode, and is even;  *)
(* after reset and after every step pc is even.                            *)
(***************************************************************************)
C30_ArchitecturalPc ==
    /\ ReadPcRan =>
        /\ arm.regs[0] = IF cpu.before.thumb = 1
                         THEN PyInt(Align4(Executed.next_address))
                         ELSE PyInt(Executed.address + 8)
        /\ IsEven(arm.regs[0])
    /\ cpu.op \in {"reset", "step"} => IsEven(arm.regs[PC])

\* the iterations of the last step: <<"iter", pc at the start of the iteration>>
Iters == SelectSeq(cpu.events, LAMBDA e : e[1] = "iter")

\* the last step returned at its breakpoint test
ReturnedAtBreak == \E k \in DOMAIN cpu.events : cpu.events[k][1] = "return"

(***************************************************************************)
(* C31.  step(repeat = n, breakpoint = b) executes at least one and at     *)
(* most n instructions and increments step_count once per instruction      *)
(* attempted; it goes on to a further instruction only from a pc other     *)
(* than b, and returns before its n instructions are done only with        *)
(* pc = b; the breakpoint is not tested before the first instruction.      *)
(***************************************************************************)
C31_StepRepeatAndBreakpoint ==
    cpu.op = "step" =>
        /\ Len(Iters) \in 1..cpu.repeat
        /\ arm.step_count = cpu.before.step_count + Len(Iters)
        /\ Iters[1][2] = Value(cpu.before.regs[PC])
        /\ \A k \in 2..Len(Iters) : PyInt(Iters[k][2]) # cpu.breakpoint
        /\ cpu.err = "none" =>
            /\ Len(Iters) < cpu.repeat => arm.regs[PC] = cpu.breakpoint
            /\ ReturnedAtBreak <=> arm.regs[PC] = cpu.breakpoint

\* step(2, breakpoint = 0x104) called with pc = 0x104 ran b 0x100 and the
\* instruction at 0x100, and returned with pc = 0x104
C31_Witness ==
    /\ cpu.op = "step"
    /\ cpu.err = "none"
    /\ cpu.repeat = 2
    /\ cpu.breakpoint = PyInt(FlashA + 4)
    /\ cpu.before.regs[PC] = cpu.breakpoint
    /\ Len(Iters) = 2
    /\ ReturnedAtBreak
    /\ arm.regs[PC] = cpu.breakpoint

(***************************************************************************)
(* SpecHle: HLE-only patches and code-only patches of flash addresses,     *)
(* even and odd, in both ISA modes, between fetches that miss or hit.      *)
(***************************************************************************)
HleAddrs == {FlashA, FlashA + 1}

NextHle ==
    \/ \E a \in HleAddrs, t \in {0, 1} : Fetch(a, t, MinAvail)
    \/ \E a \in HleAddrs, t \in {0, 1} : Patch(a, <<>>, "r0 = 1", t)
    \/ Patch(FlashA, <<"mov">>, "", 0)

SpecHle == Init /\ [][NextHle]_vars

\* 'hle_%08x' % a
HandlerName(a) == <<"hle", a>>

\* the last call was patch(a, hle = h, thumb = t) with no code
HlePatched == last.op = "patch" /\ last.data[1] = <<>> /\ last.data[2] # ""

(***************************************************************************)
(* C32.  The fetch(a, t) that follows patch(a, hle = h, thumb = t) with no *)
(* code returns a record tagged with the handler name of a, whether or not *)
(* the key was cached before the patch; a record fetched for a key with no *)
(* patch_hle entry carries no tag.                                         *)
(***************************************************************************)
C32_HleTagOnFetch ==
    /\ [][(/\ HlePatched
           /\ last'.op = "fetch"
           /\ last'.address = last.address
           /\ last'.thumb = last.thumb) =>
                /\ last'.err = "none"
                /\ last'.ret.hle = HandlerName(last.address)]_<<last.op, last.address, last.thumb>>
    /\ []((/\ last.op = "fetch"
           /\ last.err = "none"
           /\ Key(last.address, last.thumb) \notin DOMAIN patch_hle) =>
                last.ret.hle = NoHle)

\* 0x100 was fetched, patched with a handler alone and fetched again in
\* Thumb mode: the record carries the handler's name, its neighbour none
C32_Witness ==
    /\ last.op = "fetch"
    /\ last.address = FlashA
    /\ last.thumb = 1
    /\ last.ret.hle = HandlerName(FlashA)
    /\ Key(FlashA + 2, 1) \in DOMAIN instructions
    /\ instructions[Key(FlashA + 2, 1)].hle = NoHle

(***************************************************************************)
(* SpecCache: the instruction cache under fetches of 0x100 and 0x104,      *)
(* whose decoded blocks cover both, code patches of either address and     *)
(* patches without code.                                                   *)
(***************************************************************************)
CacheAddrs == {FlashA, FlashA + 4}

NextCache ==
    \/ \E a \in CacheAddrs : Fetch(a, 0, MinAvail + 4)
    \/ Fetch(FlashA, 1, MinAvail)
    \/ \E h \in {"", "r0 = 1"} : Patch(FlashA + 4, <<"mov">>, h, 0)
    \/ Patch(FlashA, <<"mov", "bx">>, "", 0)
    \/ \E a \in CacheAddrs, t \in {0, 1} : Patch(a, <<>>, "r0 = 1", t)
    \/ Patch(FlashA, <<>>, "", 0)

SpecCache == Init /\ [][NextCache]_vars

\* two cache lines are the same record
SameLine(x, y) ==
    /\ x.address = y.address
    /\ x.next_address = y.next_address
    /\ x.hle = y.hle
    /\ x.op[1] = y.op[1]
    /\ x.op[2] = y.op[2]

AliasCode == (FlashA :> 0) @@ (FlashA + 4 :> 1) @@ (HookVector :> 2)

NextAlias ==
    \/ cpu.op = "init" /\ \E a \in DOMAIN AliasCode :
                              PatchMode(a, Move("mov", AliasCode[a], Operand(Reg(PC))), 0)
    \/ cpu.op = "init" /\ \E fn \in {"ok", "reset", "copy", "step"} : Hook(FlashA, fn)
    \/ cpu.op = "init" /\ \E fn \in {"ok", "reset"} : Hook(FlashA + 4, fn)
    \/ cpu.op = "init" /\ CpuReset(PyInt(FlashA))
    \/ cpu.op \in {"reset", "step"} /\ cpu.err = "none" /\
           \E r \in 1..MaxSteps : CpuStep(r, NoBreak, 1, MinAvail)

SpecAlias == Init /\ [][NextAlias]_vars

\* the hook at address a gives self.regs a new list
Replaces(a) == HasHook(a) /\ hooks[a] \in {"reset", "copy"}

\* where the current register file points after the iteration at a
Follows(a) == IF Replaces(a) THEN HookVector ELSE a + 4

(***************************************************************************)
(* C34.  Every iteration of step fetches at the pc of the simulator's      *)
(* current register file, also after a hook replaced the register file or  *)
(* re-entered step, and step leaves that pc after the last instruction.    *)
(***************************************************************************)
C34_StepUsesCurrentRegisters ==
    (cpu.op = "step" /\ cpu.err = "none") =>
        /\ Iters[1][2] = Value(cpu.before.regs[PC])
        /\ \A k \in 1..(Len(Iters) - 1) : Iters[k + 1][2] = Follows(Iters[k][2])
        /\ arm.regs[PC] = PyInt(Follows(LastIter))

\* the part that holds: a hook that re-enters step, no hook replacing the
\* register file
C34_Reentered ==
    (/\ cpu.op = "step" /\ cpu.err = "none"
     /\ \A a \in DOMAIN hooks : ~Replaces(a)) =>
        /\ \A k \in 1..(Len(Iters) - 1) : Iters[k + 1][2] = Iters[k][2] + 4
        /\ arm.regs[PC] = PyInt(LastIter + 4)
        /\ \A k \in 1..Len(Iters) : arm.regs[AliasCode[Iters[k][2]]] = PyInt(Iters[k][2] + 8)

\* step(2) with the re-entering hook at 0x100 ran three instructions
C34_Witness ==
    /\ cpu.op = "step" /\ cpu.err = "none" /\ cpu.repeat = 2
    /\ HasHook(FlashA) /\ hooks[FlashA] = "step"
    /\ Len(Iters) = 3
    /\ arm.regs[PC] = PyInt(FlashA + 12)

(***************************************************************************)
(* SpecZero: the flag-setting shifts by a register or literal amount and   *)
(* the flag-setting moves and logical operations on an operand that is not *)
(* shifted.  One instruction at the reset vector; r0 is the operand, r1    *)
(* the amount.                                                             *)
(***************************************************************************)
ZeroInstrs ==
    {Alu(op, 2, 0, Operand(Reg(1))) : op \in ShiftOps}              \* lsls r2, r0, r1
        \cup {Alu(op, 2, 0, Operand(Lit(Zero))) : op \in ShiftOps}  \* lsls r2, r0, #0
        \cup {Move("movs", 2, Operand(Reg(0))),                     \* movs r2, r0
              Move("movs", 2, Operand(Lit(One)))}                   \* movs r2, #1
        \cup {Alu(op, 2, 1, Operand(Reg(0))) : op \in {"ands", "orrs", "eors"}}
        \cup {Compare(op, 1, Operand(Reg(0))) : op \in {"tst", "teq"}}

ZeroOperands == {One, SignBit, Mask32}

ZeroAmounts == {Zero, One, PyInt(32), PyInt(33)}

NextZero ==
    \/ \E i \in ZeroInstrs : PatchInstr(FlashA, i, "")
    \/ cpu.op = "init" /\ CpuReset(PyInt(FlashA))
    \/ cpu.op = "reset" /\ cpu.before.step_count = 0 /\
            \E x \in ZeroOperands, y \in ZeroAmounts, c \in {0, 1} : SetState(AluState(x, y, c))
    \/ cpu.op = "set_state" /\ CpuStep(1, NoBreak, 1, MinAvail)

SpecZero == Init /\ [][NextZero]_vars

\* the instruction stepped shifts by an amount that is zero modulo 32, or
\* takes an operand without a shift
ZeroShift(i) ==
    \/ i.op \in ShiftOps /\ ShiftCount(_reg_or_literal(cpu.before, i.sh.a)) = 0
    \/ i.op \in {"movs", "ands", "orrs", "eors", "tst", "teq"} /\ i.sh.kind = ""

(***************************************************************************)
(* C35.  A flag-setting operation whose shift amount is zero leaves the    *)
(* carry flag as it was, and a shift instruction leaves the operand in     *)
(* its destination.                                                        *)
(***************************************************************************)
C35_ZeroShiftKeepsCarry ==
    (cpu.op = "step" /\ cpu.err = "none" /\ ZeroShift(Executed.op[2])) =>
        /\ arm.cpsrC = cpu.before.cpsrC
        /\ Executed.op[2].op \in ShiftOps => arm.regs[2] = cpu.before.regs[0]

\* what the code does: the operand is not shifted, and the carry flag is
\* cleared, except by rrxs, which keeps it
C35_ZeroShiftClearsCarry ==
    (cpu.op = "step" /\ cpu.err = "none" /\ ZeroShift(Executed.op[2])) =>
        /\ arm.cpsrC = IF Executed.op[2].op = "rrxs" THEN cpu.before.cpsrC ELSE 0
        /\ Executed.op[2].op \in ShiftOps => arm.regs[2] = cpu.before.regs[0]

(***************************************************************************)
(* SpecFd: the full-descending stack forms of stm and ldm beside push and  *)
(* pop.  0x100 holds stmfd sp!, L or stmdb sp!, L or push L; 0x104 holds   *)
(* ldmfd sp!, L or ldmia sp!, L; sp is inside local RAM.  Each step also   *)
(* records what push L (for a store) or pop L (for a load) does from the   *)
(* state the step began in.                                                *)
(***************************************************************************)
FdLists == {<<4>>, <<4, 5>>, <<5, 4>>, <<4, LR>>}

FdStart == StackState(PyInt(2 * FlashA)).regs

\* push L for a store multiple of L, pop L for a load multiple
StackForm(i) == Stack(IF i.op = "ldm" THEN "pop" ELSE "push", i.regs)

\* step() left c; d is what the stack form of the instruction leaves
FdStepped(c, d) ==
    /\ c.err # "unmodelled"
    /\ MemDone([c.m EXCEPT !.err = c.err, !.path = ""], "step", None, None, None, 0)
    /\ arm' = c.arm
    /\ cpu' = CpuCall("step", c.err, c.events, 1, NoBreak, Zero)
                @@ [beside |-> [regs |-> d.arm.regs, local_data |-> d.m.local_data,
                                err |-> d.err]]
    /\ UNCHANGED hooks

FdStep ==
    /\ Key(Value(arm.regs[PC]), arm.thumb) \in DOMAIN instructions
    /\ FdStepped(step(CpuCur, hooks, 1, NoBreak, 1, MinAvail),
                 opfunc(CpuCur, instructions[Key(Value(arm.regs[PC]), arm.thumb)],
                        StackForm(AtPc), MinAvail))

NextFd ==
    \/ ram = {} /\ cpu.op = "init" /\ LocalRam(<<RamA, RamA + 31>>)
    \/ \E mode \in {"fd", "db"}, regs \in FdLists :
            PatchInstr(FlashA, Multiple("stm", mode, SP, TRUE, regs), "")
    \/ \E regs \in FdLists : PatchInstr(FlashA, Stack("push", regs), "")
    \/ \E mode \in {"fd", "ia"}, regs \in FdLists :
            PatchInstr(FlashA + 4, Multiple("ldm", mode, SP, TRUE, regs), "")
    \/ cpu.op = "init" /\ ram # {} /\ CpuReset(PyInt(FlashA))
    \/ cpu.op = "reset" /\ SetState(StackState(PyInt(2 * FlashA)))
    \/ cpu.op \in {"set_state", "step"} /\ cpu.err = "none" /\ arm.step_count < 2 /\ FdStep

SpecFd == Init /\ [][NextFd]_vars

\* the last call stepped the instruction op of this specification
FdRan(op) == cpu.op = "step" /\ cpu.err = "none" /\ Executed.op[2].op = op

FdRegs(i) == {i.regs[k] : k \in DOMAIN i.regs} \cup {SP}

(***************************************************************************)
(* C36.  stmfd sp!, L and stmdb sp!, L leave sp and memory as push L does, *)
(* ldmfd sp!, L and ldmia sp!, L leave the registers of L, sp and memory   *)
(* as pop L does, and stmfd sp!, L followed by ldmfd sp!, L restores the   *)
(* registers of L and sp.                                                  *)
(***************************************************************************)
C36_StackFormsArePushPop ==
    /\ FdRan("stm") =>
            /\ cpu.beside.err = "none"
            /\ arm.regs[SP] = cpu.beside.regs[SP]
            /\ local_data = cpu.beside.local_data
    /\ FdRan("ldm") =>
            /\ cpu.beside.err = "none"
            /\ \A r \in FdRegs(Executed.op[2]) : arm.regs[r] = cpu.beside.regs[r]
            /\ local_data = cpu.beside.local_data
    /\ (/\ FdRan("ldm")
        /\ instructions[Key(FlashA, 0)].op[2].op = "stm"
        /\ instructions[Key(FlashA, 0)].op[2].regs = Executed.op[2].regs) =>
            \A r \in FdRegs(Executed.op[2]) : arm.regs[r] = FdStart[r]

\* the parts that hold: sp after the store, the load forms, and the round
\* trip of one register
C36_LoadFormsArePop ==
    /\ FdRan("stm") => arm.regs[SP] = cpu.beside.regs[SP]
    /\ (FdRan("stm") /\ Len(Executed.op[2].regs) = 1) => local_data = cpu.beside.local_data
    /\ FdRan("ldm") =>
            /\ \A r \in FdRegs(Executed.op[2]) : arm.regs[r] = cpu.beside.regs[r]
            /\ local_data = cpu.beside.local_data
    /\ (/\ FdRan("ldm")
        /\ instructions[Key(FlashA, 0)].op[2].op = "stm"
        /\ instructions[Key(FlashA, 0)].op[2].regs = Executed.op[2].regs
        /\ Len(Executed.op[2].regs) = 1) =>
            \A r \in FdRegs(Executed.op[2]) : arm.regs[r] = FdStart[r]

(***************************************************************************)
(* SpecAvail: local_data_available and flash_prefetch_hint over a shadow   *)
(* made of local_ram ranges in flash that end at, before and after the     *)
(* addresses asked about.                                                  *)
(***************************************************************************)
AvailRanges ==
    {<<FlashA, FlashA + 3>>, <<FlashA, FlashA + 7>>, <<FlashA + 2, FlashA + 2>>,
     <<FlashA + 9, FlashA + 9>>}

AvailAddrs == {FlashA, FlashA + 4, FlashA + 8}

AvailLimits == {4, MinAvail, AvailLimit}

\* local_data_available(address, limit)
LocalDataAvailable(a, limit) ==
    Done([Cur EXCEPT !.ret = local_data_available(Cur, a, limit)],
         "local_data_available", a, limit, None, 0)

\* flash_prefetch_hint(address)
FlashPrefetchHint(a, n) ==
    Done(flash_prefetch_hint(Cur, a, n), "flash_prefetch_hint", a, None, None, 0)

NextAvail ==
    \/ \E r \in AvailRanges : LocalRam(r)
    \/ \E a \in AvailAddrs, limit \in AvailLimits : LocalDataAvailable(a, limit)
    \/ \E a \in {FlashA, FlashA + 4}, n \in BlockLens : FlashPrefetchHint(a, n)

SpecAvail == Init /\ [][NextAvail]_vars

\* the number of consecutive present bytes from a, capped at limit
Consecutive(a, limit) ==
    Cardinality({k \in 1..limit : \A j \in 0..(k - 1) : Present(a + j)})

(***************************************************************************)
(* C37.  local_data_available(address, limit) returns the number of        *)
(* consecutive present bytes from address, capped at limit; a flash        *)
(* address with at least 8 present bytes triggers no prefetch, and         *)
(* flash_prefetch_hint returns at least 8 for a flash address.             *)
(***************************************************************************)
C37_AvailableCountsPresentBytes ==
    /\ [](last.op = "local_data_available" =>
                last.ret = Consecutive(last.address, last.data))
    /\ [][last'.op = "flash_prefetch_hint" =>
                /\ last'.err = "none"
                /\ last'.ret >= MinAvail
                /\ Consecutive(last'.address, MinAvail) >= MinAvail =>
                        /\ last'.calls = <<>>
                        /\ local_addresses' = local_addresses]_<<last, local_addresses>>

\* what the code returns: one less than the number of flags read when all
\* of them are set; the stream of flags ends at its last written byte
C37_AvailableDropsOne ==
    last.op = "local_data_available" =>
        last.ret = IF Consecutive(last.address, last.data)
                        = Min(last.data, Max(0, local_addresses.len - last.address))
                   THEN Max(0, Consecutive(last.address, last.data) - 1)
                   ELSE Consecutive(last.address, last.data)

(***************************************************************************)
(* SpecLegacy: the condition tests of the legacy simulator (sim_arm.py)    *)
(* and of the core (sim_arm_core.py), each made for a suffix on the same   *)
(* flags.                                                                  *)
(***************************************************************************)
\* both simulators decide the suffix name with the flags f
CondCall(name, f) ==
    /\ cpu' = [op |-> "cond", name |-> name, flags |-> f,
               legacy |-> sim_arm_generate_condition_codes(f, name),
               core |-> _generate_condition_codes(f, name)]
    /\ UNCHANGED <<memvars, hooks, arm>>

NextLegacy == \E name \in Suffixes, f \in Flags : CondCall(name, f)

SpecLegacy == Init /\ [][NextLegacy]_vars

(***************************************************************************)
(* C38.  The legacy and the core simulator decide every conditional suffix *)
(* alike for every combination of N, Z, C and V, and both as the standard  *)
(* ARM condition table does.                                               *)
(***************************************************************************)
C38_LegacyAndCoreAgree ==
    cpu.op = "cond" =>
        /\ cpu.legacy = cpu.core
        /\ cpu.core = StandardTable(cpu.name, cpu.flags.cpsrN = 1, cpu.flags.cpsrZ = 1,
                                    cpu.flags.cpsrC = 1, cpu.flags.cpsrV = 1)

\* what holds: they agree on every suffix but ls, where the legacy
\* simulator tests Z and not C
C38_AgreeButLs ==
    cpu.op = "cond" =>
        /\ cpu.name # "ls" => cpu.legacy = cpu.core
        /\ cpu.name = "ls" => cpu.legacy = (cpu.flags.cpsrZ = 1 /\ cpu.flags.cpsrC = 0)
        /\ cpu.core = StandardTable(cpu.name, cpu.flags.cpsrN = 1, cpu.flags.cpsrZ = 1,
                                    cpu.flags.cpsrC = 1, cpu.flags.cpsrV = 1)

====
